---- MODULE Spec2Model ----
(***************************************************************************)
(* A model of minireload: the superreload orchestrator and its object      *)
(* patcher (autoreload.py), the watch-based Reloader facade and the        *)
(* WrappingReloader call loop (reloader.py), the event handler's dirty set *)
(* and the poll-based scan worker (autoreload.py).                         *)
(***************************************************************************)
EXTENDS Integers, Sequences, FiniteSets, TLC

VARIABLES
    heap,         \* the interpreter's objects, by allocation number
    dead,         \* objects already deallocated (their weak references are cleared)
    held,         \* objects some holder outside the units' namespaces keeps a reference to
    ns,           \* sys.modules: unit name -> its __dict__ (identifier -> object or 0)
    old_objects,  \* superreload's registry: <<unit, identifier>> -> weak references
    reloads,      \* number of superreload attempts so far
    reload_set,   \* ReloadEventHandler.reload_set: the paths changed since the last drain
    exc_info,     \* WrappingReloader.exc_info: the cached structured error, or NoErr
    errs,         \* structured error values created so far
    calls,        \* wrapper invocations so far
    last,         \* what the last operation did (its outcome, for the properties)
    lock,         \* ReloadEventHandler.lock: "free" or the thread inside "with self.lock"
    sets,         \* the set objects ReloadEventHandler has created, by allocation number
    set_ref,      \* the set object self.reload_set refers to
    notif,        \* the observer threads inside on_any_event: position, path, loaded set
    cons,         \* the consumer thread inside pop_reload_set: position, rl, returned paths
    arrived,      \* paths the notifications recorded since the accumulator was last swapped
    owed,         \* paths recorded before the last swap and after the one before it
    drains,       \* pop_reload_set calls begun so far
    fs,           \* the files of the units: modification time, or Missing
    now,          \* the clock that stamps file modifications
    mtime_table,  \* ModuleReloader.mtime_table
    waiting_for_scan, \* ModuleReloader.waiting_for_scan
    scan_requests,    \* ModuleReloader.scan_requests, a queue of one slot
    scan_results,     \* ModuleReloader.scan_results, a queue of one slot
    worker,       \* the scan_modules process: position, its table, request and dirty list
    blocked,      \* the control thread is stuck in a put on a full queue
    interrupts,   \* KeyboardInterrupts delivered to scan_modules processes so far
    entry,        \* launch(): its arguments, whether its loop still runs, how it ended
    ctor,         \* Reloader.__init__: the reload paths, the position in them, the observers
    facade        \* the facade the process uses: "watch" (Reloader), "poll" (ModuleReloader)

----------------------------------------------------------------------------
(* Bounds of the model *)

\* superreload attempts in one behaviour
MaxReloads == 2
\* wrapper invocations in one behaviour
MaxCalls == 3
\* pop_reload_set calls in one behaviour
MaxDrains == 2
\* entries of the reload_paths list given to a Reloader
MaxPaths == 3
\* file modifications in one behaviour (the last value of the clock)
MaxTime == 2
\* KeyboardInterrupts delivered to the scan processes in one behaviour
MaxInterrupts == 1
\* nesting of update_generic/update_class calls before the interpreter's
\* recursion limit raises RecursionError
MaxDepth == 3

----------------------------------------------------------------------------
(* Objects *)

Mods == {"a", "b"}
Ident == {"f", "g", "C", "D"}
\* the order in which a namespace dictionary lists its identifiers
IdentOrder == <<"f", "C", "D", "g">>
\* a type's own attributes, in the order its __dict__ lists them
AttrOrder == <<"attr", "extra", "me">>
AttrNames == {"attr", "extra", "me"}

\* function bodies: return 1, return 2, raise an Exception, raise a termination
\* signal (KeyboardInterrupt, SystemExit), raise another BaseException that is
\* not an Exception (GeneratorExit, a user's own subclass)
Bodies == {"r1", "r2", "err", "sig", "base"}

NoAttrs == [k \in AttrNames |-> 0]

\* a value is 0 (unbound / absent), an object number (> 0) or a plain value (< 0)
IsRef(v) == v > 0

\* kind, code (a function's body), attrs (a type's own __dict__), cls (an
\* instance's type), base (a type's base type), mod and name (__module__,
\* __name__), parts (a property's fdel, fget, fset; a bound method's __func__
\* and __self__)
NoParts == [fdel |-> 0, fget |-> 0, fset |-> 0, func |-> 0, self |-> 0]
FuncObj(m, i, body) ==
    [kind |-> "func", code |-> body, attrs |-> NoAttrs, cls |-> 0, base |-> 0,
     mod |-> m, name |-> i, parts |-> NoParts]
ClassObj(m, i, at, b) ==
    [kind |-> "class", code |-> "-", attrs |-> at, cls |-> 0, base |-> b,
     mod |-> m, name |-> i, parts |-> NoParts]
InstObj(c) ==
    [kind |-> "inst", code |-> "-", attrs |-> NoAttrs, cls |-> c, base |-> 0,
     mod |-> "-", name |-> "-", parts |-> NoParts]
\* property(fget, fset, fdel): a property object has no __module__
PropObj(g, s, dl) ==
    [kind |-> "property", code |-> "-", attrs |-> NoAttrs, cls |-> 0, base |-> 0,
     mod |-> "-", name |-> "-",
     parts |-> [NoParts EXCEPT !.fget = g, !.fset = s, !.fdel = dl]]
\* the bound method of function fn on the instance obj
MethObj(fn, obj) ==
    [kind |-> "method", code |-> "-", attrs |-> NoAttrs, cls |-> 0, base |-> 0,
     mod |-> "-", name |-> "-",
     parts |-> [NoParts EXCEPT !.func = fn, !.self = obj]]
Freed ==
    [kind |-> "freed", code |-> "-", attrs |-> NoAttrs, cls |-> 0, base |-> 0,
     mod |-> "-", name |-> "-", parts |-> NoParts]

\* F applied to the value of v, v evaluated once
With(v, F(_)) == CHOOSE y \in {F(x) : x \in {v}} : TRUE

Objs(h) == 1..Len(h)
Live(h, d) == Objs(h) \ d

\* the objects an object refers to
Refs(h, o) ==
    CASE h[o].kind = "inst"  -> {h[o].cls}
      [] h[o].kind = "class" ->
            {h[o].attrs[k] : k \in {x \in AttrNames : IsRef(h[o].attrs[x])}}
            \cup (IF h[o].base > 0 THEN {h[o].base} ELSE {})
      [] h[o].kind \in {"property", "method"} ->
            {v \in {h[o].parts[k] : k \in DOMAIN NoParts} : IsRef(v)}
      [] OTHER -> {}

RECURSIVE Closure(_, _)
Closure(h, S) ==
    LET T == S \cup UNION {Refs(h, o) : o \in S}
    IN  IF T = S THEN S ELSE Closure(h, T)

NsRoots(n) == {v \in {n[m][i] : m \in Mods, i \in Ident} : IsRef(v)}

\* what the holders and the namespaces reach
Reachable(h, n, hd) == Closure(h, NsRoots(n) \cup hd)

\* Reference counting frees a function or an instance as soon as nothing refers
\* to it. A type is part of a reference cycle (its __mro__, its descriptors), so
\* an unreferenced type lives on until a garbage collection run.
RefcountDead(h, d, n, hd) ==
    LET types == {o \in Live(h, d) : h[o].kind = "class"}
    IN  d \cup (Objs(h) \ Closure(h, NsRoots(n) \cup hd \cup types))

\* gc.collect(): everything unreachable goes
CollectDead(h, d, n, hd) == d \cup (Objs(h) \ Reachable(h, n, hd))

Scrub(h, d) == [o \in Objs(h) |-> IF o \in d THEN Freed ELSE h[o]]

----------------------------------------------------------------------------
(* The object patcher: update_function, update_instances, update_class,     *)
(* update_generic. A patch result is [h: the heap, ok: did a rule apply,    *)
(* fault: did the patch raise].                                              *)

\* getattr(type, key): the type's own attribute, else its base's; 0 when the
\* lookup raises AttributeError
RECURSIVE Getattr(_, _, _)
Getattr(h, c, k) ==
    IF h[c].attrs[k] # 0 THEN h[c].attrs[k]
    ELSE IF h[c].base > 0 THEN Getattr(h, h[c].base, k)
    ELSE 0

\* a variant that leaves __code__ out of func_attrs: the old function keeps its body
update_function_without_code(h, old, new) == h

\* the old function gets the new function's code (and defaults, doc, dict)
update_function(h, old, new) == [h EXCEPT ![old].code = h[new].code]

\* a variant that tests isinstance(ref, old) instead of type(ref) is old
update_instances_isinstance(h, d, old, new) ==
    [o \in Objs(h) |->
        IF o \notin d /\ h[o].kind = "inst"
           /\ (h[o].cls = old \/ h[h[o].cls].base = old)
        THEN [h[o] EXCEPT !.cls = new]
        ELSE h[o]]

\* every live object whose type is exactly old reports new as its type
update_instances(h, d, old, new) ==
    [o \in Objs(h) |->
        IF o \notin d /\ h[o].kind = "inst" /\ h[o].cls = old
        THEN [h[o] EXCEPT !.cls = new]
        ELSE h[o]]

OwnKeys(h, c) == SelectSeq(AttrOrder, LAMBDA k : h[c].attrs[k] # 0)

\* a variant of the rules' test: one of the two is of the type
isinstance2_either(h, a, b, typ) ==
    /\ IsRef(a) /\ IsRef(b)
    /\ (h[a].kind = typ \/ h[b].kind = typ)

isinstance2(h, a, b, typ) ==
    /\ IsRef(a) /\ IsRef(b)
    /\ h[a].kind = typ /\ h[b].kind = typ

RECURSIVE update_generic(_, _, _, _, _)
RECURSIVE UpdateOldKeys(_, _, _, _, _, _)
RECURSIVE CopyNewKeys(_, _, _, _)
RECURSIVE update_property(_, _, _, _, _)

\* update_class, first loop: the keys of old.__dict__ (listed before the loop)
UpdateOldKeys(h, d, old, new, keys, depth) ==
    IF keys = <<>> THEN [h |-> h, ok |-> TRUE, fault |-> FALSE]
    ELSE
      LET key == Head(keys)
          old_obj == Getattr(h, old, key)
          new_obj == Getattr(h, new, key)
      IN  IF new_obj = 0
          THEN \* obsolete attribute: remove it
               UpdateOldKeys([h EXCEPT ![old].attrs[key] = 0],
                             d, old, new, Tail(keys), depth)
          ELSE IF old_obj = new_obj
          THEN UpdateOldKeys(h, d, old, new, Tail(keys), depth)
          ELSE With(update_generic(h, d, old_obj, new_obj, depth), LAMBDA r :
                   IF r.fault THEN r
                   ELSE IF r.ok
                   THEN UpdateOldKeys(r.h, d, old, new, Tail(keys), depth)
                   ELSE UpdateOldKeys([r.h EXCEPT ![old].attrs[key] = new_obj],
                                      d, old, new, Tail(keys), depth))

\* update_class, second loop: the keys only new.__dict__ has
CopyNewKeys(h, old, new, keys) ==
    IF keys = <<>> THEN h
    ELSE LET key == Head(keys)
         IN  IF h[old].attrs[key] = 0
             THEN CopyNewKeys([h EXCEPT ![old].attrs[key] = Getattr(h, new, key)],
                              old, new, Tail(keys))
             ELSE CopyNewKeys(h, old, new, Tail(keys))

update_class(h, d, old, new, depth) ==
    With(UpdateOldKeys(h, d, old, new, OwnKeys(h, old), depth), LAMBDA r :
        IF r.fault THEN r
        ELSE [h |-> update_instances(CopyNewKeys(r.h, old, new, OwnKeys(r.h, new)),
                                     d, old, new),
              ok |-> TRUE, fault |-> FALSE])

\* update_property: fdel, fget, fset in this order, what each call reports ignored
update_property(h, d, old, new, depth) ==
    With(update_generic(h, d, h[old].parts.fdel, h[new].parts.fdel, depth), LAMBDA r1 :
      IF r1.fault THEN r1
      ELSE With(update_generic(r1.h, d, h[old].parts.fget, h[new].parts.fget, depth),
                LAMBDA r2 :
        IF r2.fault THEN r2
        ELSE With(update_generic(r2.h, d, h[old].parts.fset, h[new].parts.fset, depth),
                  LAMBDA r3 :
          IF r3.fault THEN r3 ELSE [h |-> r3.h, ok |-> TRUE, fault |-> FALSE])))

\* UPDATE_RULES, the first matching rule wins; a call nested deeper than the
\* interpreter allows raises RecursionError
update_generic(h, d, a, b, depth) ==
    IF depth = 0 THEN [h |-> h, ok |-> FALSE, fault |-> TRUE]
    ELSE IF isinstance2(h, a, b, "class") THEN update_class(h, d, a, b, depth - 1)
    ELSE IF isinstance2(h, a, b, "func")
    THEN [h |-> update_function(h, a, b), ok |-> TRUE, fault |-> FALSE]
    ELSE IF isinstance2(h, a, b, "property") THEN update_property(h, d, a, b, depth - 1)
    ELSE IF isinstance2(h, a, b, "method")
    THEN [h |-> update_function(h, h[a].parts.func, h[b].parts.func),
          ok |-> TRUE, fault |-> FALSE]
    ELSE [h |-> h, ok |-> FALSE, fault |-> FALSE]


----------------------------------------------------------------------------
(* Source files and their execution (importlib.reload re-executes the file  *)
(* in the unit's existing namespace).                                       *)

Def(i, b)      == [op |-> "def",    id |-> i,   body |-> b,   src |-> "-"]
Class(i, v, b) == [op |-> "class",  id |-> i,   body |-> v,   src |-> b]
Alias(i, j)    == [op |-> "alias",  id |-> i,   body |-> "-", src |-> j]
Raise(c)       == [op |-> "raise",  id |-> "-", body |-> c,   src |-> "-"]
SyntaxFault    == [op |-> "syntax", id |-> "-", body |-> "-", src |-> "-"]
\* i = 5: the identifier is bound to a plain value
Const(i)       == [op |-> "const",  id |-> i,   body |-> "-", src |-> "-"]

\* the own attributes a class statement gives its type: a plain attr, a method
\* extra, and me, the type itself stored as its own attribute
PlainAttr(v) == IF v = "v0" THEN 0 ELSE IF v = "v1" THEN 0 - 1 ELSE 0 - 2
HasExtra(v) == v \in {"v2", "v3"}
ExtraBody(v) == IF v = "v2" THEN "r2" ELSE "r1"
HasMe(v) == v = "cyc"

\* one statement: [h, ns (of the unit), fault]
RunStmt(h, nsm, m, st) ==
    LET n == Len(h) IN
    CASE st.op = "def" ->
           [h |-> Append(h, FuncObj(m, st.id, st.body)),
            ns |-> [nsm EXCEPT ![st.id] = n + 1], fault |-> "none"]
      [] st.op = "class" ->
           LET b == IF st.src = "-" THEN 0 ELSE nsm[st.src]
               badBase == st.src # "-" /\ (b = 0 \/ h[b].kind # "class")
               h1 == IF HasExtra(st.body)
                     THEN Append(h, FuncObj(m, "extra", ExtraBody(st.body)))
                     ELSE h
               c == Len(h1) + 1
               at == [k \in AttrNames |->
                        CASE k = "attr"  -> PlainAttr(st.body)
                          [] k = "extra" -> IF HasExtra(st.body) THEN Len(h1) ELSE 0
                          [] k = "me"    -> IF HasMe(st.body) THEN c ELSE 0]
           IN  IF badBase
               THEN [h |-> h, ns |-> nsm, fault |-> "err"]
               ELSE [h |-> Append(h1, ClassObj(m, st.id, at, b)),
                     ns |-> [nsm EXCEPT ![st.id] = c], fault |-> "none"]
      [] st.op = "alias" ->
           IF nsm[st.src] = 0
           THEN [h |-> h, ns |-> nsm, fault |-> "err"]
           ELSE [h |-> h, ns |-> [nsm EXCEPT ![st.id] = nsm[st.src]], fault |-> "none"]
      [] st.op = "const" ->
           [h |-> h, ns |-> [nsm EXCEPT ![st.id] = 0 - 1], fault |-> "none"]
      [] st.op = "raise" -> [h |-> h, ns |-> nsm, fault |-> st.body]
      [] OTHER -> [h |-> h, ns |-> nsm, fault |-> "syntax"]

RECURSIVE RunStmts(_, _, _, _)
RunStmts(h, nsm, m, stmts) ==
    IF stmts = <<>> THEN [h |-> h, ns |-> nsm, fault |-> "none"]
    ELSE With(RunStmt(h, nsm, m, Head(stmts)), LAMBDA r :
             IF r.fault # "none" THEN r
             ELSE RunStmts(r.h, r.ns, m, Tail(stmts)))

\* reload(module): a file that does not compile faults before any statement runs
reload(h, nsm, m, prog) ==
    IF \E k \in 1..Len(prog) : prog[k].op = "syntax"
    THEN [h |-> h, ns |-> nsm, fault |-> "syntax"]
    ELSE RunStmts(h, nsm, m, prog)


----------------------------------------------------------------------------
(* superreload *)

Keys == Mods \X Ident
NoRefs == [key \in Keys |-> <<>>]

\* obj.__module__: an instance answers with its type's, a bound method with its
\* function's
ModuleAttr(h, obj) ==
    IF h[obj].kind = "inst" THEN h[h[obj].cls].mod
    ELSE IF h[obj].kind = "method" THEN h[h[obj].parts.func].mod
    ELSE h[obj].mod

\* append_obj with autoload=False: [d: the registry, ok: was the object this unit's]
append_obj(h, m, reg, name, obj) ==
    LET in_module == IsRef(obj) /\ ModuleAttr(h, obj) = m
    IN  IF ~in_module THEN [d |-> reg, ok |-> FALSE]
        ELSE [d |-> [reg EXCEPT ![<<m, name>>] = Append(@, obj)], ok |-> TRUE]

\* step 1: collect old objects in the module
RECURSIVE CollectOld(_, _, _, _, _)
CollectOld(h, m, nsm, reg, names) ==
    IF names = <<>> THEN reg
    ELSE LET name == Head(names)
             obj == nsm[name]
             r == append_obj(h, m, reg, name, obj)
         IN  IF obj = 0 \/ ~r.ok
             THEN CollectOld(h, m, nsm, reg, Tail(names))
             ELSE CollectOld(h, m, nsm,
                             [r.d EXCEPT ![<<m, name>>] = Append(@, obj)],
                             Tail(names))

\* step 4: module.__dict__.update(old_dict)
RestoreDict(cur, old_dict) ==
    [i \in Ident |-> IF old_dict[i] # 0 THEN old_dict[i] ELSE cur[i]]

\* step 5, inner loop: patch every live old object of one key against new_obj
RECURSIVE PatchRefs(_, _, _, _)
PatchRefs(h, d, refs, new_obj) ==
    IF refs = <<>> THEN [h |-> h, ok |-> TRUE, fault |-> FALSE]
    ELSE IF Head(refs) \in d THEN PatchRefs(h, d, Tail(refs), new_obj)
    ELSE With(update_generic(h, d, Head(refs), new_obj, MaxDepth), LAMBDA r :
             IF r.fault THEN r ELSE PatchRefs(r.h, d, Tail(refs), new_obj))

\* a variant that keeps every back-reference, dead ones too
new_refs_unpruned(refs, d) == refs

\* step 5, new_refs: the back-references whose old_ref() is not None
new_refs(refs, d) == SelectSeq(refs, LAMBDA o : o \notin d)

\* step 5, outer loop over the new namespace: [h, reg, fault]
RECURSIVE PatchAll(_, _, _, _, _, _)
PatchAll(h, d, m, nsm, reg, names) ==
    IF names = <<>> THEN [h |-> h, reg |-> reg, fault |-> FALSE]
    ELSE LET name == Head(names)
             key == <<m, name>>
         IN  IF nsm[name] = 0 \/ reg[key] = <<>>
             THEN PatchAll(h, d, m, nsm, reg, Tail(names))
             ELSE With(PatchRefs(h, d, reg[key], nsm[name]), LAMBDA r :
                      IF r.fault THEN [h |-> r.h, reg |-> reg, fault |-> TRUE]
                      ELSE PatchAll(r.h, d, m, nsm,
                                    [reg EXCEPT ![key] = new_refs(reg[key], d)],
                                    Tail(names)))

\* superreload(module, reload, old_objects) on unit m whose file holds prog:
\* [h, ns (the unit's namespace), reg, outcome], outcome "ok" or the fault that
\* leaves it: "syntax", "err", "sig" from re-execution, "patch" from the patcher
superreload(h, d, m, nsm, reg, prog) ==
    With(CollectOld(h, m, nsm, reg, IdentOrder), LAMBDA reg1 :
      With(reload(h, nsm, m, prog), LAMBDA r :
        LET old_dict == nsm
        IN  IF r.fault # "none"
            THEN [h |-> r.h, ns |-> RestoreDict(r.ns, old_dict), reg |-> reg1,
                  outcome |-> r.fault]
            ELSE With(PatchAll(r.h, d, m, r.ns, reg1, IdentOrder), LAMBDA p :
                   [h |-> p.h, ns |-> r.ns, reg |-> p.reg,
                    outcome |-> IF p.fault THEN "patch" ELSE "ok"])))


----------------------------------------------------------------------------
(* The patcher on its own: unit "a" is edited and superreload-ed while       *)
(* holders keep, take and drop references to its entities.                  *)

patchVars == <<heap, dead, held, ns, old_objects, reloads>>
watchVars == <<reload_set, exc_info, errs, calls>>
drainVars == <<lock, sets, set_ref, notif, cons, arrived, owed, drains>>
pollVars == <<fs, now, mtime_table, waiting_for_scan, scan_requests, scan_results,
              worker, blocked, interrupts>>
entryVars == <<entry, ctor, facade>>
vars == <<patchVars, watchVars, last, drainVars, pollVars, entryVars>>

\* sys.modules in iteration order; "main" has no __spec__ to read an origin from
SysModules == <<"main", "__main__", "sys", "zipimport", "pkg", "a", "b">>
Origin(m) ==
    CASE m = "a" -> "a.py"
      [] m = "b" -> "b.py"
      [] m = "__main__" -> "main.py"
      [] m = "sys" -> "built-in"
      [] m = "zipimport" -> "frozen"
      [] m = "pkg" -> "None"
      [] OTHER -> "-"
Paths == {"a.py", "b.py", "notes.txt"}

\* the observer threads: one Observer is started per reload path
Notifiers == {"n1", "n2"}

\* a thread that is not inside on_any_event
NotifIdle == [pc |-> "idle", path |-> "-", ref |-> 0]

\* ReloadEventHandler.__init__, and no thread inside the handler
InitHandler ==
    /\ lock = "free"
    /\ sets = <<{}>>
    /\ set_ref = 1
    /\ notif = [t \in Notifiers |-> NotifIdle]
    /\ cons = [pc |-> "idle", rl |-> 0, ret |-> {}]
    /\ arrived = {}
    /\ owed = {}
    /\ drains = 0

\* launch() has not been called
NoEntryPoint == [exc_func_name |-> "-", pc |-> "none", reason |-> "-",
                 iterations |-> 0, handled |-> 0]

\* no Reloader is under construction
NoCtor == [reload_paths |-> <<>>, i |-> 0, observers |-> <<>>, pc |-> "none"]

InitEntry ==
    /\ entry = NoEntryPoint
    /\ ctor = NoCtor
    /\ facade = "-"

\* os.stat(origin) raises OSError: no such file
Missing == 0 - 1
\* mtime_table has no entry for the name (KeyError)
NoEntry == 0 - 1
\* the files os.stat is called for
Files == {"a.py", "b.py"}
\* the names that have a __spec__, in sys.modules order
SpecNames == SelectSeq(SysModules, LAMBDA m : Origin(m) # "-")
ScanNames == {SpecNames[k] : k \in 1..Len(SpecNames)}
\* what the worker saw of a unit during one scan (for the properties): not
\* reached yet, filtered by name or origin, Missing, or the time it read
NotReached == 0 - 3
Filtered == 0 - 2

\* a scan_modules process that has just started
FreshWorker ==
    [pc |-> "get", table |-> [n \in ScanNames |-> NoEntry], req |-> <<>>,
     needs_reload |-> <<>>, table0 |-> [n \in ScanNames |-> NoEntry],
     req0 |-> <<>>, seen |-> [n \in ScanNames |-> NotReached]]

\* ModuleReloader.__init__
InitModuleReloader ==
    /\ fs = [o \in Files |-> 0]
    /\ now = 0
    /\ mtime_table = [n \in ScanNames |-> NoEntry]
    /\ waiting_for_scan = FALSE
    /\ scan_requests = <<>>
    /\ scan_results = <<>>
    /\ worker = FreshWorker
    /\ blocked = FALSE
    /\ interrupts = 0

\* no structured error (None)
NoErr == [id |-> 0, exc |-> "-", frames |-> "-"]

\* the file unit "a" was first loaded from
File0 == <<Def("f", "r1"), Class("C", "v1", "-"), Class("D", "v0", "C")>>

\* the contents the file of unit "a" is edited to
PatchFiles ==
    { File0,
      <<Def("f", "r2"), Class("C", "v2", "-"), Class("D", "v0", "C")>>,
      <<Def("f", "r2"), Class("C", "v3", "-")>>,
      <<Class("f", "v1", "-"), Def("C", "r2"), Class("D", "v1", "-")>>,
      <<Def("f", "r1"), Alias("g", "f"), Class("C", "v1", "-")>>,
      <<Def("f", "r1"), Def("g", "r2"), Class("C", "v2", "-")>>,
      <<Def("f", "r2"), Class("C", "cyc", "-"), Class("D", "v0", "C")>>,
      <<Def("f", "r2"), Def("g", "r1"), Raise("err")>>,
      <<Const("f"), Class("C", "v1", "-")>>,
      <<Def("f", "r2"), SyntaxFault>> }

EmptyNs == [m \in Mods |-> [i \in Ident |-> 0]]

\* the state after "import a", an instance of each type made and held
Loaded ==
    LET r == reload(<<>>, EmptyNs["a"], "a", File0)
    IN  [h |-> r.h \o <<InstObj(r.ns["C"]), InstObj(r.ns["D"])>>,
         ns |-> [EmptyNs EXCEPT !["a"] = r.ns]]

\* the record of the last operation: op and, for superreload, the unit m and the
\* outcome; for a facade reload(), what it returned or raised (reloadRet) and how
\* many units it re-executed of those it was to (changed); for a wrapper
\* invocation also the error cached before it, whether the wrapped callable ran
\* and how it ended (funcOut), and what the invocation returned (retKind "value",
\* "error") or raised ("raised"); for update_generic its operands a and b and
\* what it reported (applied)
Idle ==
    [op |-> "none", m |-> "-", outcome |-> "-", reloadRet |-> "-", executed |-> 0,
     cachedBefore |-> 0, cleared |-> FALSE, invoked |-> FALSE, funcOut |-> "-",
     drained |-> FALSE, restarted |-> FALSE,
     fault |-> "none", a |-> 0, b |-> 0, applied |-> FALSE, changed |-> <<>>,
     retKind |-> "-", retVal |-> "-", retErr |-> NoErr]

InitPatch ==
    /\ heap = Loaded.h
    /\ ns = Loaded.ns
    /\ dead = {}
    /\ held = Objs(Loaded.h)
    /\ old_objects = NoRefs
    /\ reloads = 0
    /\ reload_set = {}
    /\ exc_info = NoErr
    /\ errs = 0
    /\ calls = 0
    /\ last = Idle
    /\ InitHandler
    /\ InitModuleReloader
    /\ InitEntry

\* the heap and the dead set once the references an operation dropped are gone
Settle(h, d, n, hd) ==
    LET d1 == RefcountDead(h, d, n, hd)
    IN  [h |-> Scrub(h, d1), d |-> d1]

\* the file of unit "a" now holds prog; superreload(a)
Superreload(prog) ==
    /\ reloads < MaxReloads
    /\ \E r \in {superreload(heap, dead, "a", ns["a"], old_objects, prog)} :
       LET n1 == [ns EXCEPT !["a"] = r.ns]
           s == Settle(r.h, dead, n1, held)
       IN  /\ heap' = s.h
           /\ dead' = s.d
           /\ ns' = n1
           /\ old_objects' = r.reg
           /\ last' = [Idle EXCEPT !.op = "superreload", !.m = "a",
                                    !.outcome = r.outcome]
    /\ reloads' = reloads + 1
    /\ UNCHANGED <<held, watchVars, drainVars, pollVars, entryVars>>

\* a holder of a function or a type lets go of it
Drop(o) ==
    /\ o \in held
    /\ heap[o].kind # "inst"
    /\ held' = held \ {o}
    /\ LET s == Settle(heap, dead, ns, held')
       IN  heap' = s.h /\ dead' = s.d
    /\ last' = Idle
    /\ UNCHANGED <<ns, old_objects, reloads, watchVars, drainVars, pollVars, entryVars>>

\* a garbage collection run
GcCollect ==
    /\ LET d1 == CollectDead(heap, dead, ns, held)
       IN  /\ d1 # dead
           /\ dead' = d1
           /\ heap' = Scrub(heap, d1)
    /\ last' = Idle
    /\ UNCHANGED <<held, ns, old_objects, reloads, watchVars, drainVars, pollVars,
                   entryVars>>

NextPatch ==
    \/ \E prog \in PatchFiles : Superreload(prog)
    \/ \E o \in Objs(heap) : Drop(o)
    \/ GcCollect

SpecPatch == InitPatch /\ [][NextPatch]_vars


----------------------------------------------------------------------------
(* Properties of superreload and the patcher *)

Range(q) == {q[k] : k \in 1..Len(q)}

\* this step is a superreload attempt with the given outcomes
ReloadStep(outcomes) ==
    /\ reloads' = reloads + 1
    /\ last'.op = "superreload"
    /\ last'.outcome \in outcomes

\* objects that existed before the step and that a holder still reaches after it
StillHeld == Objs(heap) \cap Closure(heap', held')

\* a top-level function or type of unit "a"
TopLevel(h, o) == h[o].kind \in {"func", "class"} /\ h[o].mod = "a" /\ h[o].name \in Ident

\* two attribute values are observably the same
SameValue(h, x, y) ==
    \/ x = y
    \/ /\ IsRef(x) /\ IsRef(y)
       /\ h[x].kind = h[y].kind
       /\ h[x].kind = "func" => h[x].code = h[y].code

\* o behaves as n: the same kind, a function the same body, a type the same
\* attributes (looked up as instances and callers do, through the bases)
Behaves(h, o, n) ==
    /\ IsRef(n)
    /\ h[o].kind = h[n].kind
    /\ h[o].kind = "func" => h[o].code = h[n].code
    /\ h[o].kind = "class" =>
          \A k \in AttrNames : SameValue(h, Getattr(h, o, k), Getattr(h, n, k))

TrackedUnder(o) == {i \in Ident : o \in Range(old_objects'[<<"a", i>>])}

C2_FailedReloadRestoresNamespace ==
    [][ReloadStep({"err", "sig", "syntax"}) => ns' = ns]_vars

\* the types the registry tracks, before the patch, under identifier i
TrackedTypes(i) ==
    {t \in Range(old_objects[<<"a", i>>]) \cup {ns["a"][i]} :
        t \in Live(heap, dead) /\ heap[t].kind = "class" /\ heap[t].mod = "a"}

\* C9: after a successful reload, every live object whose type was a type tracked
\* under an identifier that the reload binds to a type reports that newly bound
\* type (so an object of the replaced type reports the new type, reload after
\* reload), and every other object, an instance of a subtype included, keeps
\* its type.
C9_InstancesRetargeted ==
    [][ReloadStep({"ok"}) =>
         \A o \in Live(heap, dead) :
            heap[o].kind = "inst" =>
               LET t == heap[o].cls
                   ids == {i \in Ident : t \in TrackedTypes(i)
                                         /\ heap'[ns'["a"][i]].kind = "class"}
               IN  /\ \A i \in ids : heap'[o].cls = ns'["a"][i]
                   /\ ids = {} => heap'[o].cls = t]_vars

\* C9 witness: after two successful reloads the instance made from the first
\* type C (object 4, of type 2) reports the type C is bound to now, a third type,
\* while the instance of the subtype D (object 5) still reports D (object 3),
\* whose base is the first C
C9_Witness ==
    /\ last.op = "superreload" /\ last.outcome = "ok" /\ reloads = 2
    /\ heap[4].kind = "inst" /\ heap[4].cls = ns["a"]["C"]
    /\ heap[4].cls > 6 /\ heap[heap[4].cls].kind = "class"
    /\ heap[5].kind = "inst" /\ heap[5].cls = 3 /\ heap[3].base = 2


----------------------------------------------------------------------------
(* The watch-based facade: ReloadEventHandler, Reloader.reload and           *)
(* WrappingReloader.__call__.                                                *)

\* filesystem notifications
Events ==
    [is_directory : BOOLEAN,
     event_type : {"modified", "moved", "created", "deleted"},
     src_path : Paths]

\* on_any_event, under the handler's lock
on_any_event(rs, event) ==
    IF event.is_directory THEN rs
    ELSE IF event.event_type \notin {"modified", "moved", "created"} THEN rs
    ELSE IF event.src_path \notin rs THEN rs \cup {event.src_path}
    ELSE rs

\* pop_reload_set, under the handler's lock: [rl: what it returns, reload_set]
pop_reload_set(rs) == [rl |-> rs, reload_set |-> {}]

\* the files the two units are loaded from at first
FileA0 == <<Def("f", "r1")>>
FileB0 == <<Def("g", "r1")>>

\* the contents the units' files are edited to
WatchFilesA ==
    { FileA0, <<Def("f", "r2")>>, <<Def("f", "err")>>, <<Def("f", "sig")>>,
      <<Def("f", "base")>>, <<SyntaxFault>>,
      <<Raise("sig")>>, <<Raise("base")>>, <<Def("f", "r1"), Class("C", "cyc", "-")>> }
WatchFilesB == { FileB0, <<Raise("err")>> }

\* the files' contents when a reload that found rl dirty re-executes them (a
\* file that is not re-executed is not read)
FilesAt(rl) ==
    {[a |-> pa, b |-> pb] :
        pa \in (IF "a.py" \in rl THEN WatchFilesA ELSE {FileA0}),
        pb \in (IF "b.py" \in rl THEN WatchFilesB ELSE {FileB0})}

\* Reloader.reload, first loop: the loaded units whose origin is in the drained
\* set, in the order of sys.modules
reloaded_modules(rl) ==
    SelectSeq(SysModules, LAMBDA m : Origin(m) # "-" /\ Origin(m) \in rl)

RECURSIVE ReloadEach(_, _, _, _, _, _, _, _)

\* a loop that goes on to the next unit after a fault and reports the fault at
\* the end
ReloadEach_continues(h, d, n, reg, hd, mods, files, count) ==
    IF mods = <<>>
    THEN [h |-> h, d |-> d, ns |-> n, reg |-> reg, ret |-> "true", executed |-> count]
    ELSE LET m == Head(mods) IN
         With(superreload(h, d, m, n[m], reg, files[m]), LAMBDA r :
           LET n1 == [n EXCEPT ![m] = r.ns]
               d1 == RefcountDead(r.h, d, n1, hd)
           IN  IF r.outcome # "ok"
               THEN [ReloadEach(r.h, d1, n1, r.reg, hd, Tail(mods), files, count)
                        EXCEPT !.ret = r.outcome]
               ELSE ReloadEach(r.h, d1, n1, r.reg, hd, Tail(mods), files, count + 1))

\* Reloader.reload, second loop: superreload each collected unit; a fault leaves
\* the loop at once. [h, d, ns, reg, ret, executed]
ReloadEach(h, d, n, reg, hd, mods, files, count) ==
    IF mods = <<>>
    THEN [h |-> h, d |-> d, ns |-> n, reg |-> reg, ret |-> "true", executed |-> count]
    ELSE LET m == Head(mods) IN
         With(superreload(h, d, m, n[m], reg, files[m]), LAMBDA r :
           LET n1 == [n EXCEPT ![m] = r.ns]
               d1 == RefcountDead(r.h, d, n1, hd)
           IN  IF r.outcome # "ok"
               THEN [h |-> r.h, d |-> d1, ns |-> n1, reg |-> r.reg,
                     ret |-> r.outcome, executed |-> count]
               ELSE ReloadEach(r.h, d1, n1, r.reg, hd, Tail(mods), files, count + 1))

\* a reload without the early return for an empty set
Reloader_reload_without_early_return(h, d, n, reg, hd, rl, files) ==
    With(ReloadEach(h, d, n, reg, hd, reloaded_modules(rl), files, 0), LAMBDA r :
      IF r.ret # "true" THEN r
      ELSE [r EXCEPT !.d = CollectDead(r.h, r.d, r.ns, hd)])

\* Reloader.reload given the drained set rl: [h, d, ns, reg, ret, executed], ret
\* "true" or "false", or the fault that leaves reload()
Reloader_reload(h, d, n, reg, hd, rl, files) ==
    IF Cardinality(rl) = 0
    THEN [h |-> h, d |-> d, ns |-> n, reg |-> reg, ret |-> "false", executed |-> 0]
    ELSE With(ReloadEach(h, d, n, reg, hd, reloaded_modules(rl), files, 0), LAMBDA r :
           IF r.ret # "true" THEN r
           ELSE [r EXCEPT !.d = CollectDead(r.h, r.d, r.ns, hd)])

\* ReloadErrorInfo(exc): a fresh value; a SyntaxError has no frames
ReloadErrorInfo(n, fault) ==
    [id |-> n, exc |-> fault, frames |-> IF fault = "syntax" THEN "empty" ELSE "inner"]

\* the cached error cleared on every invocation
ShouldClear_always(ret) == TRUE

\* if self.reload(): self.exc_info = None
ShouldClear(ret) == ret = "true"

\* the callable invoked whatever is cached
ShouldInvoke_always(cached) == TRUE

\* if self.exc_info is None: return self.func(...)
ShouldInvoke(cached) == cached = NoErr

\* a handler that catches whatever is raised
Captured_bare_except(fault) == TRUE

\* a handler that misses the faults of compiling the file
Captured_without_syntax(fault) == fault \in {"err", "patch"}

\* the faults "except Exception" captures (SyntaxError and the patcher's
\* RecursionError are Exceptions); KeyboardInterrupt and SystemExit are raised
\* again, any other BaseException is not handled at all
Captured(fault) == fault \in {"err", "syntax", "patch"}

\* how a call of the function object o ends: its body's value or its fault
CallFunc(h, o) == h[o].code

\* WrappingReloader.func: the function wrapped at construction (the first f of a)
WrappedFunc == 1

InitWatch ==
    /\ LET ra == reload(<<>>, EmptyNs["a"], "a", FileA0)
           rb == reload(ra.h, EmptyNs["b"], "b", FileB0)
       IN  /\ heap = rb.h
           /\ ns = [EmptyNs EXCEPT !["a"] = ra.ns, !["b"] = rb.ns]
    /\ dead = {}
    /\ held = {WrappedFunc}
    /\ old_objects = NoRefs
    /\ reloads = 0
    /\ reload_set = {}
    /\ exc_info = NoErr
    /\ errs = 0
    /\ calls = 0
    /\ last = Idle
    /\ InitHandler
    /\ InitModuleReloader
    /\ InitEntry

\* a filesystem notification is delivered to the handler
Notify(event) ==
    /\ reload_set' = on_any_event(reload_set, event)
    /\ last' = Idle
    /\ UNCHANGED <<patchVars, exc_info, errs, calls, drainVars, pollVars, entryVars>>

\* WrappingReloader.__call__: what one invocation does to the wrapper, the
\* handler and the units
WrapperCall(files) ==
    /\ calls < MaxCalls
    /\ calls' = calls + 1
    /\ LET p == pop_reload_set(reload_set) IN
       /\ reload_set' = p.reload_set
       /\ \E r \in {Reloader_reload(heap, dead, ns, old_objects, held, p.rl, files)} :
          LET faultR == r.ret \notin {"true", "false"}
              clear  == ~faultR /\ ShouldClear(r.ret)
              cached == IF clear THEN NoErr ELSE exc_info
              invoke == ~faultR /\ ShouldInvoke(cached)
              out    == IF invoke THEN CallFunc(r.h, WrappedFunc) ELSE "-"
              fault  == IF faultR THEN r.ret
                        ELSE IF invoke /\ out \in {"err", "sig", "base"} THEN out
                        ELSE "none"
              s      == Settle(r.h, r.d, r.ns, held)
              rec    == [Idle EXCEPT !.op = "call", !.reloadRet = r.ret,
                                     !.executed = r.executed,
                                     !.changed = reloaded_modules(p.rl),
                                     !.cachedBefore = exc_info.id,
                                     !.cleared = clear, !.invoked = invoke,
                                     !.funcOut = out, !.fault = fault]
          IN  /\ heap' = s.h
              /\ dead' = s.d
              /\ ns' = r.ns
              /\ old_objects' = r.reg
              /\ IF fault = "none"
                 THEN /\ exc_info' = cached
                      /\ errs' = errs
                      /\ last' = IF invoke
                                 THEN [rec EXCEPT !.retKind = "value", !.retVal = out]
                                 ELSE [rec EXCEPT !.retKind = "error", !.retErr = cached]
                 ELSE IF Captured(fault)
                 THEN /\ exc_info' = ReloadErrorInfo(errs + 1, fault)
                      /\ errs' = errs + 1
                      /\ last' = [rec EXCEPT !.retKind = "error",
                                             !.retErr = ReloadErrorInfo(errs + 1, fault)]
                 ELSE /\ exc_info' = cached
                      /\ errs' = errs
                      /\ last' = [rec EXCEPT !.retKind = "raised", !.retVal = fault]
    /\ UNCHANGED <<held, reloads, drainVars, pollVars>>

\* WrappingReloader.__call__, called by the user's own loop
Call(files) ==
    /\ WrapperCall(files)
    /\ UNCHANGED entryVars

Next ==
    \/ \E event \in Events : Notify(event)
    \/ \E files \in FilesAt(reload_set) : Call(files)

Spec == InitWatch /\ [][Next]_vars


----------------------------------------------------------------------------
(* Properties of the facade and the wrapper (specification Spec).            *)

\* the step is one wrapper invocation (its record is in last')
Invocation == last'.op = "call"

\* C3: the facade's reload() returns true if and only if at least one unit was
\* re-executed during that call; a drained change set that matches the origin
\* of no loaded unit yields false.
C3_TrueIffReexecuted ==
    (last.op = "call" /\ last.reloadRet \in {"true", "false"})
        => (last.reloadRet = "true" <=> last.executed > 0)

\* C4: in every wrapper invocation the cached error is reset to none if and
\* only if the invocation's reload() returned true; an invocation whose
\* reload() returned false or raised leaves an error cached (the same one, or
\* the fresh one made from the fault reload() raised), and one whose reload()
\* returned true and whose callable returned a value ends with none cached.
C4_ClearedIffReloadTrue ==
    [][Invocation =>
        /\ last'.cleared <=> last'.reloadRet = "true"
        /\ (last'.reloadRet # "true" /\ exc_info # NoErr) => exc_info' # NoErr
        /\ (last'.reloadRet = "false" /\ exc_info # NoErr) => exc_info' = exc_info
        /\ (last'.reloadRet = "true" /\ last'.retKind = "value") => exc_info' = NoErr
      ]_vars

\* an invocation that found an error cached, whose reload() returned true and
\* re-executed a unit, and that ended with no error cached
C4_Witness ==
    /\ last.op = "call"
    /\ last.cachedBefore > 0
    /\ last.reloadRet = "true"
    /\ last.executed > 0
    /\ last.cleared
    /\ exc_info = NoErr

\* C6: while an error is cached and reload() returns false, an invocation does
\* not call the wrapped callable and re-executes no unit (namespaces, heap and
\* registry are untouched); it returns the very error value that was cached and
\* leaves it cached, so the same holds of the next invocation.
C6_CachedErrorReturnedAgain ==
    [][(Invocation /\ exc_info # NoErr /\ last'.reloadRet = "false") =>
        /\ ~last'.invoked
        /\ last'.executed = 0
        /\ <<heap, dead, ns, old_objects>>' = <<heap, dead, ns, old_objects>>
        /\ last'.retKind = "error"
        /\ last'.retErr = exc_info
        /\ exc_info' = exc_info
        /\ errs' = errs
      ]_vars

\* the third invocation returns, without calling, the one error ever made: it
\* was cached by an earlier invocation and no reload has returned true since
C6_Witness ==
    /\ last.op = "call"
    /\ calls = 3
    /\ errs = 1
    /\ last.cachedBefore = 1
    /\ last.reloadRet = "false"
    /\ ~last.invoked
    /\ last.retKind = "error"
    /\ last.retErr = exc_info
    /\ exc_info.id = 1

\* C7: a termination signal raised by the reload step or by the wrapped
\* callable propagates to the caller: it is raised by the invocation, no
\* structured error is made of it, and the cached error is what it was when the
\* signal was raised (untouched if reload() raised it; none if reload() had
\* returned true and the callable raised it).
C7_SignalPropagates ==
    [][(Invocation /\ last'.fault = "sig") =>
        /\ last'.retKind = "raised"
        /\ last'.retVal = "sig"
        /\ errs' = errs
        /\ exc_info' = (IF last'.cleared THEN NoErr ELSE exc_info)
        /\ (last'.reloadRet = "sig" => exc_info' = exc_info)
      ]_vars

\* the reload step raised a termination signal while an error was cached, and
\* the error is still cached
C7_Witness ==
    /\ last.op = "call"
    /\ last.reloadRet = "sig"
    /\ last.retKind = "raised"
    /\ last.cachedBefore > 0
    /\ exc_info.id = last.cachedBefore

\* the wrapped callable raised a termination signal
C7_WitnessCallable ==
    /\ last.op = "call"
    /\ last.funcOut = "sig"
    /\ last.retKind = "raised"

\* the invocation made a structured error of its fault: a fresh value, cached
\* and returned, with empty frames exactly for a syntax fault
CapturedFresh ==
    /\ last'.retKind = "error"
    /\ errs' = errs + 1
    /\ last'.retErr = [id |-> errs + 1, exc |-> last'.fault,
                       frames |-> IF last'.fault = "syntax" THEN "empty" ELSE "inner"]
    /\ last'.retErr.id > exc_info.id
    /\ exc_info' = last'.retErr

\* C8 as claimed: any fault other than a termination signal raised by the
\* reload step or by the wrapped callable never propagates out of the
\* invocation: it is captured into a fresh structured error value that becomes
\* the cached error and is the invocation's return value.
C8_FaultsCaptured_AsClaimed ==
    [][(Invocation /\ last'.fault \notin {"none", "sig"}) => CapturedFresh]_vars

\* C8, amended: a fault of the class Exception (which includes syntax faults and
\* the patcher's faults) raised by the reload step or by the wrapped callable
\* never propagates: it is captured into a fresh structured error value that
\* becomes the cached error and is the invocation's return value. A fault that
\* is neither an Exception nor a termination signal propagates to the caller
\* and is not captured.
C8_FaultsCaptured ==
    [][Invocation =>
        /\ last'.fault \in {"err", "syntax", "patch"} => CapturedFresh
        /\ last'.fault = "base" =>
              /\ last'.retKind = "raised"
              /\ last'.retVal = "base"
              /\ errs' = errs
      ]_vars

\* a second error has been captured, this one from a syntax fault of the reload
\* step, and replaced the first as the cached error
C8_Witness ==
    /\ last.op = "call"
    /\ last.fault = "syntax"
    /\ last.reloadRet = "syntax"
    /\ last.retKind = "error"
    /\ last.retErr.frames = "empty"
    /\ last.cachedBefore = 1
    /\ exc_info.id = 2

\* a fault of the patcher (its unbounded recursion on a type that is its own
\* attribute) has been captured
C8_WitnessPatch ==
    /\ last.op = "call"
    /\ last.fault = "patch"
    /\ last.retKind = "error"
    /\ last.retErr.frames = "inner"
    /\ exc_info = last.retErr

\* a fault of the wrapped callable has been captured
C8_WitnessCallable ==
    /\ last.op = "call"
    /\ last.funcOut = "err"
    /\ last.retKind = "error"
    /\ exc_info = last.retErr


----------------------------------------------------------------------------
(* The event handler step by step: observer threads deliver notifications    *)
(* (on_any_event) while the consumer thread drains (pop_reload_set). Every   *)
(* action is one access of the handler's fields by one thread.               *)

\* a lock that lets every thread in
acquire_unlocked(l) == TRUE

\* "with self.lock": a thread enters when no thread holds the lock
acquire(l) == l = "free"

\* a drain that puts the same set object back
swapped_same_set(ss, c) == [sets |-> ss, set_ref |-> c]

\* self.reload_set = set(): a new, empty set object becomes the accumulator
swapped(ss, c) == [sets |-> Append(ss, {}), set_ref |-> Len(ss) + 1]

InitDrain ==
    /\ heap = <<>>
    /\ ns = EmptyNs
    /\ dead = {}
    /\ held = {}
    /\ old_objects = NoRefs
    /\ reloads = 0
    /\ reload_set = {}
    /\ exc_info = NoErr
    /\ errs = 0
    /\ calls = 0
    /\ last = Idle
    /\ InitHandler
    /\ InitModuleReloader
    /\ InitEntry

drainRest == <<patchVars, watchVars, last, pollVars, entryVars>>

\* on_any_event is entered on thread t: the two early returns, lines 50-54
OnEvent(t, event) ==
    /\ notif[t].pc = "idle"
    /\ IF event.is_directory
       THEN UNCHANGED notif
       ELSE IF event.event_type \notin {"modified", "moved", "created"}
       THEN UNCHANGED notif
       ELSE notif' = [notif EXCEPT ![t] = [pc |-> "lock", path |-> event.src_path, ref |-> 0]]
    /\ UNCHANGED <<lock, sets, set_ref, cons, arrived, owed, drains, drainRest>>

\* with self.lock (line 56)
NotifLock(t) ==
    /\ notif[t].pc = "lock"
    /\ acquire(lock)
    /\ lock' = t
    /\ notif' = [notif EXCEPT ![t].pc = "test"]
    /\ UNCHANGED <<sets, set_ref, cons, arrived, owed, drains, drainRest>>

\* if event.src_path not in self.reload_set (line 57)
NotifTest(t) ==
    /\ notif[t].pc = "test"
    /\ IF notif[t].path \notin sets[set_ref]
       THEN /\ notif' = [notif EXCEPT ![t].pc = "load"]
            /\ UNCHANGED arrived
       ELSE /\ notif' = [notif EXCEPT ![t].pc = "unlock"]
            /\ arrived' = arrived \cup {notif[t].path}
    /\ UNCHANGED <<lock, sets, set_ref, cons, owed, drains, drainRest>>

\* self.reload_set is loaded for the call of add (line 58)
NotifLoad(t) ==
    /\ notif[t].pc = "load"
    /\ notif' = [notif EXCEPT ![t].pc = "add", ![t].ref = set_ref]
    /\ UNCHANGED <<lock, sets, set_ref, cons, arrived, owed, drains, drainRest>>

\* .add(event.src_path) on the set that was loaded (line 58)
NotifAdd(t) ==
    /\ notif[t].pc = "add"
    /\ sets' = [sets EXCEPT ![notif[t].ref] = @ \cup {notif[t].path}]
    /\ arrived' = arrived \cup {notif[t].path}
    /\ notif' = [notif EXCEPT ![t].pc = "unlock"]
    /\ UNCHANGED <<lock, set_ref, cons, owed, drains, drainRest>>

\* the end of the with block
NotifUnlock(t) ==
    /\ notif[t].pc = "unlock"
    /\ lock' = "free"
    /\ notif' = [notif EXCEPT ![t] = NotifIdle]
    /\ UNCHANGED <<sets, set_ref, cons, arrived, owed, drains, drainRest>>

\* pop_reload_set is called on the consumer thread
PopCall ==
    /\ cons.pc = "idle"
    /\ drains < MaxDrains
    /\ drains' = drains + 1
    /\ cons' = [cons EXCEPT !.pc = "lock"]
    /\ UNCHANGED <<lock, sets, set_ref, notif, arrived, owed, drainRest>>

\* with self.lock (line 42)
PopLock ==
    /\ cons.pc = "lock"
    /\ acquire(lock)
    /\ lock' = "main"
    /\ cons' = [cons EXCEPT !.pc = "read"]
    /\ UNCHANGED <<sets, set_ref, notif, arrived, owed, drains, drainRest>>

\* rl = self.reload_set (line 43): rl is the set object itself
PopRead ==
    /\ cons.pc = "read"
    /\ cons' = [cons EXCEPT !.pc = "swap", !.rl = set_ref]
    /\ UNCHANGED <<lock, sets, set_ref, notif, arrived, owed, drains, drainRest>>

\* self.reload_set = set() (line 44)
PopSwap ==
    /\ cons.pc = "swap"
    /\ \E r \in {swapped(sets, set_ref)} :
          /\ sets' = r.sets
          /\ set_ref' = r.set_ref
    /\ owed' = arrived
    /\ arrived' = {}
    /\ cons' = [cons EXCEPT !.pc = "unlock"]
    /\ UNCHANGED <<lock, notif, drains, drainRest>>

\* the end of the with block
PopUnlock ==
    /\ cons.pc = "unlock"
    /\ lock' = "free"
    /\ cons' = [cons EXCEPT !.pc = "return"]
    /\ UNCHANGED <<sets, set_ref, notif, arrived, owed, drains, drainRest>>

\* return rl (line 46): the caller reads the paths of the set it was given
PopReturn ==
    /\ cons.pc = "return"
    /\ cons' = [cons EXCEPT !.pc = "idle", !.ret = sets[cons.rl]]
    /\ UNCHANGED <<lock, sets, set_ref, notif, arrived, owed, drains, drainRest>>

NextDrain ==
    \/ \E t \in Notifiers, event \in Events : OnEvent(t, event)
    \/ \E t \in Notifiers : NotifLock(t)
    \/ \E t \in Notifiers : NotifTest(t)
    \/ \E t \in Notifiers : NotifLoad(t)
    \/ \E t \in Notifiers : NotifAdd(t)
    \/ \E t \in Notifiers : NotifUnlock(t)
    \/ PopCall
    \/ PopLock
    \/ PopRead
    \/ PopSwap
    \/ PopUnlock
    \/ PopReturn

SpecDrain == InitDrain /\ [][NextDrain]_vars

\* C5: with notifications delivered on observer threads interleaved with
\* drains on the consumer thread, every path recorded by a file-level
\* notification is returned by exactly one drain: a drain returns precisely the
\* paths recorded since the previous drain's swap and up to its own (none is
\* returned again without a new notification, none is lost by the swap), and a
\* path recorded after the swap is in the new accumulator for the next drain.
C5_DrainReturnsEachPathOnce ==
    /\ (cons.pc = "idle" /\ drains > 0) => cons.ret = owed
    /\ (lock = "free" /\ \A t \in Notifiers : notif[t].pc \in {"idle", "lock"})
          => sets[set_ref] = arrived
    /\ (cons.pc = "return") => sets[cons.rl] = owed

\* two drains have returned: the first returned a.py, the second returned a.py
\* again because a new notification for it was recorded in between, together
\* with b.py, while another notification is waiting for the lock
C5_Witness ==
    /\ drains = 2
    /\ cons.pc = "idle"
    /\ cons.ret = {"a.py", "b.py"}
    /\ sets[1] = {"a.py"}
    /\ \E t \in Notifiers : notif[t].pc = "lock"


----------------------------------------------------------------------------
(* The poll-based detector: the scan_modules process, the two queues of one  *)
(* slot, and ModuleReloader.reload on the control thread, while the units'   *)
(* files are modified and removed.                                           *)

\* the request's name-to-origin map, in sys.modules order (lines 179-185)
modules_to_scan == [k \in 1..Len(SpecNames) |->
                       [name |-> SpecNames[k], origin |-> Origin(SpecNames[k])]]

\* a scan whose stat failure is not handled
scan_one_unguarded(table, needs, name, origin, fsys) ==
    IF name \in {"__mp_main__", "__main__"}
    THEN [table |-> table, needs |-> needs, fault |-> "none", seen |-> Filtered]
    ELSE IF origin \in {"None", "built-in", "frozen"}
    THEN [table |-> table, needs |-> needs, fault |-> "none", seen |-> Filtered]
    ELSE IF fsys[origin] = Missing
    THEN [table |-> table, needs |-> needs, fault |-> "OSError", seen |-> Missing]
    ELSE LET mtime == fsys[origin] IN
         IF table[name] = NoEntry
         THEN [table |-> [table EXCEPT ![name] = mtime], needs |-> needs,
               fault |-> "none", seen |-> mtime]
         ELSE IF table[name] < mtime
         THEN [table |-> [table EXCEPT ![name] = mtime], needs |-> Append(needs, name),
               fault |-> "none", seen |-> mtime]
         ELSE [table |-> table, needs |-> needs, fault |-> "none", seen |-> mtime]

\* a scan that takes an equal modification time for a change
scan_one_not_strict(table, needs, name, origin, fsys) ==
    IF name \in {"__mp_main__", "__main__"}
    THEN [table |-> table, needs |-> needs, fault |-> "none", seen |-> Filtered]
    ELSE IF origin \in {"None", "built-in", "frozen"}
    THEN [table |-> table, needs |-> needs, fault |-> "none", seen |-> Filtered]
    ELSE IF fsys[origin] = Missing
    THEN [table |-> table, needs |-> needs, fault |-> "none", seen |-> Missing]
    ELSE LET mtime == fsys[origin] IN
         IF table[name] = NoEntry
         THEN [table |-> [table EXCEPT ![name] = mtime], needs |-> needs,
               fault |-> "none", seen |-> mtime]
         ELSE IF table[name] <= mtime
         THEN [table |-> [table EXCEPT ![name] = mtime], needs |-> Append(needs, name),
               fault |-> "none", seen |-> mtime]
         ELSE [table |-> table, needs |-> needs, fault |-> "none", seen |-> mtime]

\* one turn of the loop over req.items() (lines 96-116)
scan_one(table, needs, name, origin, fsys) ==
    IF name \in {"__mp_main__", "__main__"}
    THEN [table |-> table, needs |-> needs, fault |-> "none", seen |-> Filtered]
    ELSE IF origin \in {"None", "built-in", "frozen"}
    THEN [table |-> table, needs |-> needs, fault |-> "none", seen |-> Filtered]
    ELSE IF fsys[origin] = Missing
    THEN [table |-> table, needs |-> needs, fault |-> "none", seen |-> Missing]
    ELSE LET mtime == fsys[origin] IN
         IF table[name] = NoEntry
         THEN [table |-> [table EXCEPT ![name] = mtime], needs |-> needs,
               fault |-> "none", seen |-> mtime]
         ELSE IF table[name] < mtime
         THEN [table |-> [table EXCEPT ![name] = mtime], needs |-> Append(needs, name),
               fault |-> "none", seen |-> mtime]
         ELSE [table |-> table, needs |-> needs, fault |-> "none", seen |-> mtime]

\* what reload(module) finds when the unit's file is gone
MissingFile == <<Raise("err")>>
\* the contents the units' files are written with
PollFilesA == { FileA0, <<Def("f", "r2")>>, <<Raise("err")>> }
PollFilesB == { FileB0 }

\* the files' contents when a reload re-executes the units of changed
PollFilesAt(changed, fsys) ==
    LET dirty(m) == \E k \in 1..Len(changed) : changed[k] = m IN
    {[a |-> pa, b |-> pb] :
        pa \in (IF ~dirty("a") THEN {FileA0}
                ELSE IF fsys["a.py"] = Missing THEN {MissingFile} ELSE PollFilesA),
        pb \in (IF ~dirty("b") THEN {FileB0}
                ELSE IF fsys["b.py"] = Missing THEN {MissingFile} ELSE PollFilesB)}

InitPoll ==
    /\ LET ra == reload(<<>>, EmptyNs["a"], "a", FileA0)
           rb == reload(ra.h, EmptyNs["b"], "b", FileB0)
       IN  /\ heap = rb.h
           /\ ns = [EmptyNs EXCEPT !["a"] = ra.ns, !["b"] = rb.ns]
    /\ dead = {}
    /\ held = {WrappedFunc}
    /\ old_objects = NoRefs
    /\ reloads = 0
    /\ reload_set = {}
    /\ exc_info = NoErr
    /\ errs = 0
    /\ calls = 0
    /\ last = Idle
    /\ InitHandler
    /\ InitModuleReloader
    /\ InitEntry

\* what no step of the files, of the worker's loop or of reload() touches
pollRest == <<watchVars, drainVars, entryVars, interrupts>>

\* a unit's file is written (or created again)
WriteFile(o) ==
    /\ now < MaxTime
    /\ now' = now + 1
    /\ fs' = [fs EXCEPT ![o] = now + 1]
    /\ last' = Idle
    /\ UNCHANGED <<patchVars, mtime_table, waiting_for_scan, scan_requests,
                   scan_results, worker, blocked, pollRest>>

\* a unit's file is removed
RemoveFile(o) ==
    /\ fs[o] # Missing
    /\ fs' = [fs EXCEPT ![o] = Missing]
    /\ last' = Idle
    /\ UNCHANGED <<patchVars, now, mtime_table, waiting_for_scan, scan_requests,
                   scan_results, worker, blocked, pollRest>>

\* mtime_table, req = requests.get(timeout=2.0), and needs_reload = []
WorkerGet ==
    /\ worker.pc = "get"
    /\ scan_requests # <<>>
    /\ worker' = [pc |-> "scan", table |-> Head(scan_requests).table,
                  req |-> Head(scan_requests).req, needs_reload |-> <<>>,
                  table0 |-> Head(scan_requests).table,
                  req0 |-> Head(scan_requests).req,
                  seen |-> [n \in ScanNames |-> NotReached]]
    /\ scan_requests' = <<>>
    /\ last' = Idle
    /\ UNCHANGED <<patchVars, fs, now, mtime_table, waiting_for_scan, scan_results,
                   blocked, pollRest>>

\* except queue.Empty: return
WorkerTimeout ==
    /\ worker.pc = "get"
    /\ scan_requests = <<>>
    /\ worker' = [worker EXCEPT !.pc = "dead"]
    /\ last' = Idle
    /\ UNCHANGED <<patchVars, fs, now, mtime_table, waiting_for_scan, scan_requests,
                   scan_results, blocked, pollRest>>

\* except KeyboardInterrupt: return
WorkerInterrupt ==
    /\ worker.pc \in {"get", "scan"}
    /\ interrupts < MaxInterrupts
    /\ interrupts' = interrupts + 1
    /\ worker' = [worker EXCEPT !.pc = "dead"]
    /\ last' = Idle
    /\ UNCHANGED <<patchVars, fs, now, mtime_table, waiting_for_scan, scan_requests,
                   scan_results, blocked, watchVars, drainVars, entryVars>>

\* one turn of the loop over req.items(); a fault that is not handled ends the process
WorkerScan ==
    /\ worker.pc = "scan"
    /\ worker.req # <<>>
    /\ LET it == Head(worker.req) IN
       \E r \in {scan_one(worker.table, worker.needs_reload, it.name, it.origin, fs)} :
          worker' = IF r.fault # "none"
                    THEN [worker EXCEPT !.pc = "crashed", !.seen[it.name] = r.seen]
                    ELSE [worker EXCEPT !.table = r.table, !.needs_reload = r.needs,
                                        !.req = Tail(worker.req),
                                        !.seen[it.name] = r.seen]
    /\ last' = Idle
    /\ UNCHANGED <<patchVars, fs, now, mtime_table, waiting_for_scan, scan_requests,
                   scan_results, blocked, pollRest>>

\* results.put((mtime_table, needs_reload)): waits while the slot is taken
WorkerPut ==
    /\ worker.pc = "scan"
    /\ worker.req = <<>>
    /\ scan_results = <<>>
    /\ scan_results' = <<[table |-> worker.table, needs_reload |-> worker.needs_reload,
                          table0 |-> worker.table0, req0 |-> worker.req0,
                          seen |-> worker.seen]>>
    /\ worker' = [worker EXCEPT !.pc = "get"]
    /\ last' = Idle
    /\ UNCHANGED <<patchVars, fs, now, mtime_table, waiting_for_scan, scan_requests,
                   blocked, pollRest>>

\* a restart that leaves waiting_for_scan as it was
init_subproc_keeps_flag(flag) ==
    [waiting_for_scan |-> flag, scan_requests |-> <<>>, scan_results |-> <<>>,
     worker |-> FreshWorker]

\* a restart that starts the new process on the queues of the old one
init_subproc_same_queues(flag) ==
    [waiting_for_scan |-> FALSE, scan_requests |-> scan_requests,
     scan_results |-> <<>>, worker |-> FreshWorker]

\* init_subproc: the flag cleared, two new queues, a new process
init_subproc(flag) ==
    [waiting_for_scan |-> FALSE, scan_requests |-> <<>>, scan_results |-> <<>>,
     worker |-> FreshWorker]

\* a facade that takes every scan process for alive
is_alive_always(w) == TRUE

\* scan_process.is_alive()
is_alive(w) == w.pc \notin {"dead", "crashed"}

\* ModuleReloader.reload
PollReload ==
    /\ ~blocked
    /\ LET drained == scan_results # <<>>
           table1  == IF drained THEN Head(scan_results).table ELSE mtime_table
           changed == IF drained THEN Head(scan_results).needs_reload ELSE <<>>
           flag1   == IF drained THEN FALSE ELSE waiting_for_scan
           alive   == is_alive(worker)
           sub     == IF alive
                      THEN [waiting_for_scan |-> flag1, scan_requests |-> scan_requests,
                            scan_results |-> <<>>, worker |-> worker]
                      ELSE init_subproc(flag1)
           waiting == sub.waiting_for_scan
           reqs    == sub.scan_requests
       IN  /\ mtime_table' = table1
           /\ scan_results' = sub.scan_results
           /\ worker' = sub.worker
           /\ IF ~waiting /\ reqs # <<>>
              THEN \* scan_requests.put waits for the slot
                   /\ blocked' = TRUE
                   /\ waiting_for_scan' = FALSE
                   /\ scan_requests' = reqs
                   /\ last' = [Idle EXCEPT !.op = "pollreload", !.reloadRet = "blocked",
                                           !.drained = drained, !.restarted = ~alive]
                   /\ UNCHANGED patchVars
              ELSE /\ blocked' = FALSE
                   /\ waiting_for_scan' = TRUE
                   /\ scan_requests' =
                        IF waiting THEN reqs
                        ELSE <<[table |-> table1, req |-> modules_to_scan]>>
                   /\ IF changed = <<>>
                      THEN /\ last' = [Idle EXCEPT !.op = "pollreload",
                                                   !.reloadRet = "false",
                                                   !.drained = drained,
                                                   !.restarted = ~alive]
                           /\ UNCHANGED patchVars
                      ELSE \E files \in PollFilesAt(changed, fs) :
                           \E r \in {ReloadEach(heap, dead, ns, old_objects, held,
                                                changed, files, 0)} :
                           LET s == Settle(r.h, r.d, r.ns, held) IN
                              /\ heap' = s.h
                              /\ dead' = s.d
                              /\ ns' = r.ns
                              /\ old_objects' = r.reg
                              /\ last' = [Idle EXCEPT !.op = "pollreload",
                                                      !.reloadRet = r.ret,
                                                      !.executed = r.executed,
                                                      !.changed = changed,
                                                      !.drained = drained,
                                                      !.restarted = ~alive]
                              /\ UNCHANGED <<held, reloads>>
    /\ UNCHANGED <<fs, now, pollRest>>

NextPoll ==
    \/ \E o \in Files : WriteFile(o)
    \/ \E o \in Files : RemoveFile(o)
    \/ WorkerGet
    \/ WorkerTimeout
    \/ WorkerInterrupt
    \/ WorkerScan
    \/ WorkerPut
    \/ PollReload

SpecPoll == InitPoll /\ [][NextPoll]_vars


\* the names of a dirty list
NamesOf(needs) == {needs[k] : k \in 1..Len(needs)}

\* the step is one turn of the worker's loop, for a unit whose origin is missing
ScansMissing ==
    /\ worker.pc = "scan"
    /\ worker.req # <<>>
    /\ worker'.seen # worker.seen
    /\ Head(worker.req).origin \in Files
    /\ fs[Head(worker.req).origin] = Missing

\* a published result treats every unit of its request as the scan saw it
ResultAsSeen(res) ==
    \A n \in ScanNames :
        /\ res.seen[n] # NotReached
        /\ res.seen[n] \in {Missing, Filtered} =>
              /\ n \notin NamesOf(res.needs_reload)
              /\ res.table[n] = res.table0[n]
        /\ res.seen[n] >= 0 =>
              /\ res.table[n] = (IF res.table0[n] < res.seen[n] THEN res.seen[n]
                                 ELSE res.table0[n])
              /\ n \in NamesOf(res.needs_reload)
                    <=> (res.table0[n] # NoEntry /\ res.table0[n] < res.seen[n])

\* C10: in every scan cycle of the poll worker a unit whose origin cannot be
\* stat-ed is skipped: the turn of the loop leaves the dirty list and the
\* modification-time table as they were and goes on with the next unit, the
\* worker never ends with a fault, and the published result has no entry made
\* or changed for that unit and treats every other unit of the request by the
\* modification time the scan read for it.
C10_MissingOriginSkipped ==
    /\ [][ScansMissing =>
            /\ worker'.pc = "scan"
            /\ worker'.needs_reload = worker.needs_reload
            /\ worker'.table = worker.table
            /\ worker'.req = Tail(worker.req)
            /\ worker'.seen[Head(worker.req).name] = Missing
          ]_vars
    /\ [](worker.pc # "crashed")
    /\ [](\A k \in 1..Len(scan_results) : ResultAsSeen(scan_results[k]))

\* a result is published for a request whose unit a had a table entry and whose
\* file was missing when scanned: a keeps its entry and is not dirty, while b,
\* scanned after it, is reported dirty with its entry advanced
C10_Witness ==
    /\ scan_results # <<>>
    /\ Head(scan_results).seen["a"] = Missing
    /\ Head(scan_results).table0["a"] = 0
    /\ Head(scan_results).table["a"] = 0
    /\ Head(scan_results).needs_reload = <<"b">>
    /\ Head(scan_results).table["b"] > Head(scan_results).table0["b"]

\* a result is published for a first request whose unit a was missing: no entry
\* is created for a, one is created for b
C10_WitnessNoEntry ==
    /\ scan_results # <<>>
    /\ Head(scan_results).seen["a"] = Missing
    /\ Head(scan_results).table["a"] = NoEntry
    /\ Head(scan_results).table["b"] = 0
    /\ Head(scan_results).needs_reload = <<>>


----------------------------------------------------------------------------
(* The legacy entry point launch(cls, func_name, exc_func_name="") of        *)
(* reloader.py: one action is one turn of its "while True" loop.             *)

\* the values given for exc_func_name: the default, the name of a method the
\* object has, and a name the object has no attribute for
ExcFuncNames == {"", "on_exc", "missing"}

\* exc_func = getattr(obj, exc_func_name, None)
exc_func(name) == IF name = "on_exc" THEN "on_exc" ELSE "None"

\* if exc_func_name is not None and type(res) == ReloadErrorInfo (line 196)
calls_handler(name, res_kind) == name # "None" /\ res_kind = "error"

InitLaunch ==
    /\ LET ra == reload(<<>>, EmptyNs["a"], "a", FileA0)
           rb == reload(ra.h, EmptyNs["b"], "b", FileB0)
       IN  /\ heap = rb.h
           /\ ns = [EmptyNs EXCEPT !["a"] = ra.ns, !["b"] = rb.ns]
    /\ dead = {}
    /\ held = {WrappedFunc}
    /\ old_objects = NoRefs
    /\ reloads = 0
    /\ reload_set = {}
    /\ exc_info = NoErr
    /\ errs = 0
    /\ calls = 0
    /\ last = Idle
    /\ InitHandler
    /\ InitModuleReloader
    /\ \E name \in ExcFuncNames :
          entry = [NoEntryPoint EXCEPT !.exc_func_name = name, !.pc = "running"]
    /\ ctor = NoCtor
    /\ facade = "watch"

\* one turn of the loop: res = reloader(), then the handler
LaunchIter(files) ==
    /\ entry.pc = "running"
    /\ WrapperCall(files)
    /\ entry' =
         IF last'.retKind = "raised"
         THEN \* the invocation raised: the fault leaves launch()
              [entry EXCEPT !.pc = "ended", !.reason = last'.retVal,
                            !.iterations = @ + 1]
         ELSE IF calls_handler(entry.exc_func_name, last'.retKind)
         THEN IF exc_func(entry.exc_func_name) = "None"
              THEN \* None(res): TypeError, which nothing catches
                   [entry EXCEPT !.pc = "ended", !.reason = "TypeError",
                                 !.iterations = @ + 1]
              ELSE [entry EXCEPT !.handled = @ + 1, !.iterations = @ + 1]
         ELSE [entry EXCEPT !.iterations = @ + 1]
    /\ UNCHANGED <<ctor, facade>>

NextLaunch ==
    \/ \E event \in Events : Notify(event)
    \/ \E files \in FilesAt(reload_set) : LaunchIter(files)

SpecLaunch == InitLaunch /\ [][NextLaunch]_vars

\* the step is one turn of launch's loop
LoopTurn == entry.pc = "running" /\ entry'.iterations = entry.iterations + 1

\* C11: the legacy entry point loops forever for every accepted argument
\* combination, the default without an error handler included: a turn that
\* produced a structured error invokes the handler when the object has one and
\* goes on to the next turn, and the loop ends only with a turn whose
\* invocation raised (a termination signal), never because a structured error
\* was produced.
C11_LoopsOnAfterError ==
    [][LoopTurn =>
        /\ last'.retKind = "error" =>
              /\ entry'.pc = "running"
              /\ exc_func(entry.exc_func_name) # "None"
                    => entry'.handled = entry.handled + 1
              /\ exc_func(entry.exc_func_name) = "None"
                    => entry'.handled = entry.handled
        /\ entry'.pc = "ended" => last'.retKind = "raised"
      ]_vars


----------------------------------------------------------------------------
(* Either facade: a process that uses the watch-based Reloader (inside the   *)
(* wrapper) or the poll-based ModuleReloader.                                *)

InitFacades ==
    /\ LET ra == reload(<<>>, EmptyNs["a"], "a", FileA0)
           rb == reload(ra.h, EmptyNs["b"], "b", FileB0)
       IN  /\ heap = rb.h
           /\ ns = [EmptyNs EXCEPT !["a"] = ra.ns, !["b"] = rb.ns]
    /\ dead = {}
    /\ held = {WrappedFunc}
    /\ old_objects = NoRefs
    /\ reloads = 0
    /\ reload_set = {}
    /\ exc_info = NoErr
    /\ errs = 0
    /\ calls = 0
    /\ last = Idle
    /\ InitHandler
    /\ InitModuleReloader
    /\ entry = NoEntryPoint
    /\ ctor = NoCtor
    /\ facade \in {"watch", "poll"}

NextFacades ==
    \/ facade = "watch" /\ Next
    \/ facade = "poll" /\ NextPoll

SpecFacades == InitFacades /\ [][NextFacades]_vars

\* the step is a reload() of the watch-based facade that finds nothing to drain
WatchReloadNothingPending ==
    /\ facade = "watch"
    /\ last'.op = "call"
    /\ calls' = calls + 1
    /\ reload_set = {}

\* the step is a reload() of the poll-based facade that drains no result, or a
\* result whose dirty list is empty
PollReloadNothingPending ==
    /\ facade = "poll"
    /\ last'.op = "pollreload"
    /\ (scan_results = <<>> \/ Head(scan_results).needs_reload = <<>>)

\* C12: with no pending changes, reload() on either facade returns false and
\* leaves every unit namespace, the registry (and the objects) unchanged; in
\* the wrapper it does not clear the cached error, which is still cached after
\* the invocation; this holds of every such call, however many are repeated.
C12_NothingPendingNothingChanges ==
    /\ [][WatchReloadNothingPending =>
            /\ last'.reloadRet = "false"
            /\ last'.executed = 0
            /\ <<heap, dead, ns, old_objects>>' = <<heap, dead, ns, old_objects>>
            /\ ~last'.cleared
            /\ exc_info # NoErr => exc_info' = exc_info
          ]_vars
    /\ [][PollReloadNothingPending =>
            /\ last'.reloadRet = "false"
            /\ last'.executed = 0
            /\ <<heap, dead, ns, old_objects>>' = <<heap, dead, ns, old_objects>>
            /\ <<exc_info, errs>>' = <<exc_info, errs>>
          ]_vars

\* the wrapper's third invocation in a row found nothing pending while an error
\* was cached, after a reload had replaced f
C12_Witness ==
    /\ facade = "watch"
    /\ calls = 3
    /\ last.op = "call"
    /\ last.reloadRet = "false"
    /\ last.cachedBefore > 0
    /\ exc_info.id = last.cachedBefore
    /\ old_objects[<<"a", "f">>] # <<>>

\* the poll-based facade drained a result with an empty dirty list after it had
\* reloaded a unit
C12_WitnessPoll ==
    /\ facade = "poll"
    /\ last.op = "pollreload"
    /\ last.reloadRet = "false"
    /\ old_objects[<<"a", "f">>] # <<>>
    /\ mtime_table["a"] > 0


----------------------------------------------------------------------------
(* Construction of the watch-based Reloader: Reloader.__init__(reload_paths) *)
(* one turn of its loop at a time.                                           *)

\* root paths, as their components; "/" first is the root directory
RootPaths == { <<"/", "srv", "app">>, <<"/">>, <<"srv", "app">>, <<".", "lib">>, <<>> }

\* the (path, recursive) pairs a caller may give
PathEntries == [path : RootPaths, recursive : BOOLEAN]

\* the lists of at most n pairs
RECURSIVE PathLists(_)
PathLists(n) ==
    IF n = 0 THEN {<<>>}
    ELSE LET shorter == PathLists(n - 1) IN
         shorter \cup {Append(l, e) : l \in {x \in shorter : Len(x) = n - 1},
                                      e \in PathEntries}

\* a test that accepts every path
isabs_any(path) == TRUE

\* os.path.isabs(path): the path begins at the root
isabs(path) == path # <<>> /\ Head(path) = "/"

InitCtor ==
    /\ heap = <<>>
    /\ ns = EmptyNs
    /\ dead = {}
    /\ held = {}
    /\ old_objects = NoRefs
    /\ reloads = 0
    /\ reload_set = {}
    /\ exc_info = NoErr
    /\ errs = 0
    /\ calls = 0
    /\ last = Idle
    /\ InitHandler
    /\ InitModuleReloader
    /\ entry = NoEntryPoint
    /\ facade = "watch"
    /\ \E l \in PathLists(MaxPaths) :
          ctor = [reload_paths |-> l, i |-> 1, observers |-> <<>>, pc |-> "loop"]

ctorRest == <<patchVars, watchVars, last, drainVars, pollVars, entry, facade>>

\* one turn of "for path, recursive in reload_paths" (lines 83-88)
CtorPath ==
    /\ ctor.pc = "loop"
    /\ ctor.i <= Len(ctor.reload_paths)
    /\ LET path == ctor.reload_paths[ctor.i].path IN
       ctor' = IF ~isabs(path)
               THEN [ctor EXCEPT !.pc = "ValueError"]
               ELSE [ctor EXCEPT !.i = @ + 1,
                                 !.observers = Append(@, [path |-> path,
                                                          recursive |-> TRUE])]
    /\ UNCHANGED ctorRest

\* the rest of __init__ (lines 90-93)
CtorDone ==
    /\ ctor.pc = "loop"
    /\ ctor.i > Len(ctor.reload_paths)
    /\ ctor' = [ctor EXCEPT !.pc = "constructed"]
    /\ UNCHANGED ctorRest

NextCtor == CtorPath \/ CtorDone

SpecCtor == InitCtor /\ [][NextCtor]_vars

\* the positions of the paths that are not absolute
Relative(l) == {k \in 1..Len(l) : l[k].path = <<>> \/ Head(l[k].path) # "/"}

\* C13: constructing the watch-based Reloader with a reload-path collection
\* that contains a non-absolute root path, at any position, fails with an
\* invalid-argument fault (at the first such path, however many absolute ones
\* precede it) and is never completed; construction is completed only when
\* every root path is absolute, with one observer started per path.
C13_RelativePathFailsConstruction ==
    LET l == ctor.reload_paths IN
    /\ ctor.pc = "constructed" =>
          /\ Relative(l) = {}
          /\ Len(ctor.observers) = Len(l)
    /\ ctor.pc = "ValueError" =>
          /\ ctor.i \in Relative(l)
          /\ \A k \in Relative(l) : ctor.i <= k
    /\ (ctor.pc = "loop" /\ Relative(l) # {}) =>
          \A k \in Relative(l) : ctor.i <= k

\* construction failed at a relative path in the last position, after two
\* observers were started for the absolute paths before it
C13_Witness ==
    /\ ctor.pc = "ValueError"
    /\ Len(ctor.reload_paths) = 3
    /\ ctor.i = 3
    /\ Len(ctor.observers) = 2


----------------------------------------------------------------------------
(* The poll worker on one request: every table and several name-to-origin    *)
(* maps, over every state of the files.                                      *)

\* the name-to-origin maps of the requests: all units, all but a, b alone, none
ReqMaps ==
    { modules_to_scan,
      SelectSeq(modules_to_scan, LAMBDA it : it.name # "a"),
      SelectSeq(modules_to_scan, LAMBDA it : it.name = "b"),
      <<>> }

\* the tables of the requests: any entry for the units that have a file, an
\* entry or none for the others
ReqTables ==
    {t \in [ScanNames -> {NoEntry} \cup 0..MaxTime] :
        \A n \in ScanNames : Origin(n) \notin Files => t[n] \in {NoEntry, 0}}

InitScan ==
    /\ LET ra == reload(<<>>, EmptyNs["a"], "a", FileA0)
           rb == reload(ra.h, EmptyNs["b"], "b", FileB0)
       IN  /\ heap = rb.h
           /\ ns = [EmptyNs EXCEPT !["a"] = ra.ns, !["b"] = rb.ns]
    /\ dead = {}
    /\ held = {WrappedFunc}
    /\ old_objects = NoRefs
    /\ reloads = 0
    /\ reload_set = {}
    /\ exc_info = NoErr
    /\ errs = 0
    /\ calls = 0
    /\ last = Idle
    /\ InitHandler
    /\ InitEntry
    /\ fs \in [Files -> {Missing} \cup 0..MaxTime]
    /\ now = MaxTime
    /\ mtime_table \in ReqTables
    /\ \E req \in ReqMaps : scan_requests = <<[table |-> mtime_table, req |-> req]>>
    /\ waiting_for_scan = TRUE
    /\ scan_results = <<>>
    /\ worker = FreshWorker
    /\ blocked = FALSE
    /\ interrupts = 0

NextScan == WorkerGet \/ WorkerScan \/ WorkerPut

SpecScan == InitScan /\ [][NextScan]_vars

\* the unit is one the scan looks at the file of
Scanned(it) ==
    /\ it.name \notin {"__mp_main__", "__main__"}
    /\ it.origin \notin {"None", "built-in", "frozen"}
    /\ fs[it.origin] # Missing

\* the dirty list the request calls for: the scanned units that have an entry
\* older than their file, in the request's order
DirtyOf(table, req) ==
    LET d == SelectSeq(req, LAMBDA it :
                 Scanned(it) /\ table[it.name] # NoEntry
                             /\ table[it.name] < fs[it.origin])
    IN  [k \in 1..Len(d) |-> d[k].name]

\* the table the request calls for
TableOf(table, req) ==
    [n \in ScanNames |->
        IF \E k \in 1..Len(req) :
              /\ req[k].name = n
              /\ Scanned(req[k])
              /\ (table[n] = NoEntry \/ table[n] < fs[req[k].origin])
        THEN fs[Origin(n)]
        ELSE table[n]]

\* C14: for every request (table, name-to-origin map) the worker's response is
\* exactly this: the dirty list holds precisely the names that are not entry
\* units, whose origin is not built-in, frozen or unknown, whose file can be
\* stat-ed, that have a table entry, and whose modification time is strictly
\* newer than the entry; the table returned is the table given except that the
\* dirty and the first-sighted names map to their modification time. An equal
\* or older time leaves the entry as it is and the unit clean.
C14_ResponseIsExact ==
    \A k \in 1..Len(scan_results) :
        LET res == scan_results[k] IN
        /\ res.needs_reload = DirtyOf(res.table0, res.req0)
        /\ res.table = TableOf(res.table0, res.req0)

\* a response to a request for all units: a is dirty, b has an entry of the
\* same time as its file and is clean, and the units without a file are as
\* they were
C14_Witness ==
    /\ scan_results # <<>>
    /\ Head(scan_results).req0 = modules_to_scan
    /\ Head(scan_results).needs_reload = <<"a">>
    /\ Head(scan_results).table0["a"] = 0
    /\ Head(scan_results).table["a"] = 2
    /\ Head(scan_results).table0["b"] = 1
    /\ fs["b.py"] = 1
    /\ Head(scan_results).table["b"] = 1
    /\ Head(scan_results).table["sys"] = NoEntry


----------------------------------------------------------------------------
(* Worker death and restart. The control thread calls reload() again and     *)
(* again (the loop of the entry point), and a scan_modules process that can  *)
(* take a step does so.                                                      *)

SpecPollFair ==
    /\ InitPoll
    /\ [][NextPoll]_vars
    /\ WF_vars(PollReload)
    /\ WF_vars(WorkerGet)
    /\ WF_vars(WorkerScan)
    /\ WF_vars(WorkerPut)

\* the step is a reload() that finds the scan process dead
ReloadFindsWorkerDead == last'.op = "pollreload" /\ ~is_alive(worker)

\* C15: the poll worker ends when no request arrives within its timeout (it
\* is then dead until a reload() replaces it), and a reload() that finds the
\* worker dead, whether it died idle, with a request in the channel or in the
\* middle of a scan, starts a new worker with new channels and submits a
\* request made of the facade's table, the in-flight flag set for it; so after
\* any death of the worker a later reload() drains a completed scan result.
C15_ScanningResumes ==
    /\ [][ReloadFindsWorkerDead =>
            /\ last'.restarted
            /\ worker' = FreshWorker
            /\ scan_results' = <<>>
            /\ scan_requests' = <<[table |-> mtime_table', req |-> modules_to_scan]>>
            /\ waiting_for_scan'
          ]_vars
    /\ [][(worker.pc = "get" /\ worker'.pc = "dead" /\ interrupts' = interrupts)
             => scan_requests = <<>>]_vars
    /\ (worker.pc = "dead") ~> (last.op = "pollreload" /\ last.drained)

\* a reload() has replaced a worker that died in the middle of a scan, the
\* flag still set for the scan that was lost, and submitted a new request
C15_Witness ==
    /\ last.op = "pollreload"
    /\ last.restarted
    /\ ~last.drained
    /\ interrupts = 1
    /\ worker = FreshWorker
    /\ scan_requests # <<>>
    /\ Head(scan_requests).table["a"] = 0
    /\ waiting_for_scan


\* the scans in flight: requests in the channel, the scan the worker is in,
\* results in the channel
InFlight ==
    Len(scan_requests) + (IF worker.pc = "scan" THEN 1 ELSE 0) + Len(scan_results)

\* C16: at most one scan is in flight at any time: the request channel, the
\* worker's current scan and the response channel together hold at most one
\* item; the facade submits a request only into an empty request channel and
\* the worker, while it scans, has an empty response channel to publish into,
\* so no put on a channel of one slot waits and reload() never blocks.
C16_OneScanInFlight ==
    /\ [](InFlight <= 1)
    /\ [](~blocked)
    /\ [](last.reloadRet # "blocked")
    /\ [](worker.pc = "scan" => scan_results = <<>>)
    /\ [][(last'.op = "pollreload" /\ scan_requests' # scan_requests /\ scan_requests' # <<>>)
             => (scan_requests = <<>> \/ ~is_alive(worker))]_vars

\* reload() has drained a result that reported a dirty unit and submitted the
\* next request, which is the one scan in flight
C16_Witness ==
    /\ last.op = "pollreload"
    /\ last.drained
    /\ last.reloadRet = "true"
    /\ scan_requests # <<>>
    /\ scan_results = <<>>
    /\ worker.pc = "get"
    /\ InFlight = 1


----------------------------------------------------------------------------
(* The registry across superreload attempts (specification SpecPatch).       *)

\* what append_obj accepts of unit "a": an object whose __module__ is "a"
Trackable(h, obj) == IsRef(obj) /\ ModuleAttr(h, obj) = "a"

\* the outcomes of an attempt whose re-execution faulted: the registry is then
\* as step 1 left it
ReExecFaults == {"err", "sig", "base", "syntax"}

\* C17: step 1 of superreload appends, for each trackable top-level entity of
\* the unit, exactly one weak back-reference under (unit name, identifier), and
\* none for an entity that is not trackable; hence one attempt grows each
\* registry entry by at most one back-reference.
C17_OneBackReferencePerAttempt ==
    [][ReloadStep(ReExecFaults \cup {"ok", "patch"}) =>
        \A i \in Ident :
            LET key == <<"a", i>>
                obj == ns["a"][i]
            IN  /\ Len(old_objects'[key]) <= Len(old_objects[key]) + 1
                /\ last'.outcome \in ReExecFaults =>
                      old_objects'[key] =
                          IF Trackable(heap, obj) THEN Append(old_objects[key], obj)
                          ELSE old_objects[key]
      ]_vars


\* the entry of identifier i after step 1 and the pruning of step 5, where the
\* entities in live count as live during the reload: the back-references of
\* the entry before, then those step 1 appended for the entity obj bound to i
PrunedEntry(i, live) ==
    LET key == <<"a", i>>
        obj == ns["a"][i]
        kept == SelectSeq(old_objects[key], LAMBDA o : o \in live)
        after == old_objects'[key]
    IN  /\ Range(after) \subseteq live
        /\ Len(after) >= Len(kept)
        /\ SubSeq(after, 1, Len(kept)) = kept
        /\ \A k \in (Len(kept) + 1)..Len(after) : after[k] = obj
        /\ Len(after) > Len(kept) <=> Trackable(heap, obj)

\* what something other than the registry holds during the reload: the
\* namespaces before and after re-execution, the holders, and all they refer to
HeldDuringReload ==
    Closure(heap, NsRoots(ns) \cup held) \cup Closure(heap', NsRoots(ns') \cup held)

\* C18 as claimed: after every successful superreload each entry of the unit
\* contains only back-references to entities that something other than the
\* registry held during that reload, in their original order, and is empty when
\* there was none.
C18_EntriesPruned_AsClaimed ==
    [][ReloadStep({"ok"}) =>
         \A i \in {j \in Ident : ns'["a"][j] # 0} :
            PrunedEntry(i, HeldDuringReload \cap Objs(heap))]_vars

\* the entities some registry entry refers to
Registered == UNION {Range(old_objects[key]) : key \in Keys}

\* C18 as amended: after every successful superreload each entry of the unit
\* contains exactly the back-references whose entity was not yet deallocated
\* during that reload, in their original order, and is empty when there was
\* none; an unreferenced function is deallocated at once, an unreferenced type
\* only by the next garbage collection run, until which its back-reference
\* stays. The registry keeps no entity alive: every registered entity that is
\* not deallocated is reached from a namespace, a holder or a type that awaits
\* collection.
C18_EntriesPruned ==
    /\ [][ReloadStep({"ok"}) =>
            \A i \in {j \in Ident : ns'["a"][j] # 0} :
               PrunedEntry(i, Objs(heap) \ dead)]_vars
    /\ [](\A o \in Registered \ dead :
             o \in Closure(heap, {v \in {ns[m][i] : m \in Mods, i \in Ident} : v > 0}
                                 \cup held
                                 \cup {c \in Objs(heap) \ dead : heap[c].kind = "class"}))

\* a successful second reload found the first function f dead and pruned its
\* back-references, the entry of f keeping the live ones
C18_Witness ==
    /\ last.op = "superreload" /\ last.outcome = "ok"
    /\ 1 \in dead
    /\ old_objects[<<"a", "f">>] # <<>>
    /\ 1 \notin Range(old_objects[<<"a", "f">>])

\* a successful second reload found no live back-reference under f, now bound
\* to a plain value, and removed the entry
C18_WitnessRemoved ==
    /\ last.op = "superreload" /\ last.outcome = "ok"
    /\ reloads = 2
    /\ 1 \in dead
    /\ ns["a"]["f"] < 0
    /\ old_objects[<<"a", "f">>] = <<>>

\* the registry refers to an entity that is deallocated although registered
C18_WitnessWeak == Registered \cap dead # {}


----------------------------------------------------------------------------
(* update_generic on its own (specification SpecGeneric): reconcile is       *)
(* applied to pairs drawn from a pool of entities of every kind.            *)

\* three functions, two types (the second holds a property where the first
\* holds a method function), two properties, an instance and two of its bound
\* methods, two types that hold themselves as an attribute
GenericHeap ==
    << FuncObj("a", "f", "r1"),
       FuncObj("a", "f", "r2"),
       FuncObj("a", "g", "err"),
       ClassObj("a", "C", [attr |-> 0 - 1, extra |-> 1, me |-> 0], 0),
       ClassObj("a", "C", [attr |-> 0 - 2, extra |-> 7, me |-> 0], 0),
       PropObj(1, 3, 0),
       PropObj(2, 0, 0),
       InstObj(4),
       MethObj(1, 8),
       MethObj(3, 8),
       ClassObj("a", "D", [attr |-> 0, extra |-> 0, me |-> 11], 0),
       ClassObj("a", "D", [attr |-> 0, extra |-> 0, me |-> 12], 0) >>

\* how many times reconcile is applied in a row
MaxReconciles == 2

\* what reconcile may be handed: an entity, None (0) or a plain value
GenericArgs == (1..Len(GenericHeap)) \cup {0, 0 - 1}

InitGeneric ==
    /\ heap = GenericHeap
    /\ ns = EmptyNs
    /\ dead = {}
    /\ held = 1..Len(GenericHeap)
    /\ old_objects = NoRefs
    /\ reloads = 0
    /\ reload_set = {}
    /\ exc_info = NoErr
    /\ errs = 0
    /\ calls = 0
    /\ last = Idle
    /\ InitHandler
    /\ InitModuleReloader
    /\ InitEntry

\* update_generic(a, b); a RecursionError leaves the patches made so far
Reconcile(a, b) ==
    /\ calls < MaxReconciles
    /\ calls' = calls + 1
    /\ \E r \in {update_generic(heap, dead, a, b, MaxDepth)} :
          /\ heap' = r.h
          /\ last' = [Idle EXCEPT !.op = "update_generic", !.a = a, !.b = b,
                                   !.applied = r.ok,
                                   !.fault = IF r.fault THEN "patch" ELSE "none"]
    /\ UNCHANGED <<dead, held, ns, old_objects, reloads, reload_set, exc_info, errs,
                   drainVars, pollVars, entryVars>>

NextGeneric == \E a \in GenericArgs, b \in GenericArgs : Reconcile(a, b)

SpecGeneric == InitGeneric /\ [][NextGeneric]_vars

\* the runtime kind of a value
Kind(h, v) == IF IsRef(v) THEN h[v].kind ELSE "plain"

\* the kinds UPDATE_RULES names, in the order of the rules
RuleKinds == <<"class", "func", "property", "method">>

\* the entities of S and the instances of its types
WithInstances(h, S) == S \cup {o \in Objs(h) : h[o].kind = "inst" /\ h[o].cls \in S}

\* the entities the rule for the kind of a may modify: a function itself, a
\* bound method's function, a property's three callables, a type with what its
\* attributes reach, and the instances of the types among these
MayModify(h, a) ==
    CASE h[a].kind = "func" -> {a}
      [] h[a].kind = "method" -> {h[a].parts.func}
      [] h[a].kind = "property" -> WithInstances(h, Closure(h, Refs(h, a)))
      [] h[a].kind = "class" -> WithInstances(h, Closure(h, {a}))
      [] OTHER -> {}

\* what the rule for the kind of a does to a
RuleEffect(a, b) ==
    /\ Kind(heap, a) = "func" => heap'[a].code = heap[b].code
    /\ Kind(heap, a) = "method" =>
          heap'[heap[a].parts.func].code = heap[heap[b].parts.func].code
    /\ Kind(heap, a) = "property" =>
          /\ heap'[a] = heap[a]
          /\ \A k \in {"fdel", "fget", "fset"} :
                LET x == heap[a].parts[k]
                    y == heap[b].parts[k]
                IN  Kind(heap, x) = "func" /\ Kind(heap, y) = "func" =>
                       heap'[x].code = heap[y].code
    /\ Kind(heap, a) = "class" =>
          /\ a # b => heap'[b] = heap[b]
          /\ \A o \in Objs(heap) :
                heap[o].kind = "inst" /\ heap[o].cls = a => heap'[o].cls = b

\* C19: whenever update_generic returns, it reports true exactly when old and
\* new are both of the same kind among type, function, property and bound
\* method, and then the rule of that kind and no other has acted: nothing but
\* what that rule patches is modified. When the kinds differ it reports false
\* and modifies nothing: the old entity is as it was and nothing refers to the
\* new entity that did not before.
C19_OneRuleBySharedKind ==
    [][last'.op = "update_generic" /\ last'.fault = "none" =>
         LET a == last'.a
             b == last'.b
             same == /\ Kind(heap, a) = Kind(heap, b)
                     /\ Kind(heap, a) \in Range(RuleKinds)
         IN  /\ last'.applied <=> same
             /\ ~same => heap' = heap
             /\ same =>
                   /\ \A o \in Objs(heap) \ MayModify(heap, a) : heap'[o] = heap[o]
                   /\ RuleEffect(a, b)
             /\ Len(heap') = Len(heap)
      ]_vars

\* a property was reconciled against a property: the getter now runs the new
\* getter's body
C19_Witness ==
    /\ last.op = "update_generic" /\ last.a = 6 /\ last.b = 7
    /\ last.applied
    /\ heap[1].code = "r2"

\* a function was handed a type: nothing applied
C19_WitnessMismatch ==
    /\ last.op = "update_generic" /\ last.a = 1 /\ last.b = 4
    /\ ~last.applied /\ last.fault = "none"

\* a bound method was reconciled against a bound method
C19_WitnessMethod ==
    /\ last.op = "update_generic" /\ last.a = 9 /\ last.b = 10
    /\ last.applied
    /\ heap[1].code = "err"

\* a type was reconciled against a type whose attribute is of another kind
C19_WitnessType ==
    /\ last.op = "update_generic" /\ last.a = 4 /\ last.b = 5
    /\ last.applied
    /\ heap[4].attrs["extra"] = 7
    /\ heap[8].cls = 5


----------------------------------------------------------------------------
(* A fault in the middle of a change set (specification SpecFacades).        *)

\* how a facade reload() ends when superreload faults
ReloadFaults == {"err", "sig", "base", "syntax", "patch"}

\* the step is a facade reload() that was to re-execute a and then b and that
\* the superreload of a left with a fault
FaultAtFirstOfTwo ==
    /\ last'.op \in {"call", "pollreload"}
    /\ last'.changed = <<"a", "b">>
    /\ last'.reloadRet \in ReloadFaults
    /\ last'.executed = 0

\* unit b is as before the step: superreload(b) has not begun
UnitBUntouched ==
    /\ ns'["b"] = ns["b"]
    /\ \A i \in Ident : old_objects'[<<"b", i>>] = old_objects[<<"b", i>>]
    /\ \A o \in NsRoots([ns EXCEPT !["a"] = EmptyNs["a"]]) : heap'[o] = heap[o]

\* the files of the loaded units are there and none is newer than the facade's
\* table says
NoNewerFile ==
    \A m \in {"a", "b"} :
        /\ mtime_table[m] # NoEntry
        /\ fs[Origin(m)] # Missing
        /\ fs[Origin(m)] <= mtime_table[m]

\* C20: when superreload faults for the first of two dirty units, that reload()
\* ends with the fault and the second unit is not re-executed by it; the
\* watch-based change set stays drained and the poll-based table stays as the
\* drained scan result advanced it; a following reload() with no new change
\* (nothing notified since; every file there and none newer than the table
\* says) returns false
\* and re-executes nothing.
C20_FaultAbandonsChangeSet ==
    /\ [][FaultAtFirstOfTwo => UnitBUntouched]_vars
    /\ [][FaultAtFirstOfTwo /\ facade = "watch" => reload_set' = {}]_vars
    /\ [][FaultAtFirstOfTwo /\ facade = "poll" =>
             /\ scan_results # <<>>
             /\ mtime_table' = Head(scan_results).table
             /\ mtime_table["b"] < mtime_table'["b"]]_vars
    /\ [][facade = "watch" /\ last'.op = "call" /\ reload_set = {} =>
             /\ last'.reloadRet = "false"
             /\ ns' = ns /\ old_objects' = old_objects]_vars
    /\ [][facade = "poll" /\ last'.op = "pollreload" /\ NoNewerFile =>
             /\ last'.reloadRet \in {"false", "blocked"}
             /\ ns' = ns /\ old_objects' = old_objects]_vars

\* a watch-based reload() of a and b ended with the fault of a, and the
\* invocation after it found nothing to reload although b was never re-executed
C20_Witness ==
    /\ facade = "watch"
    /\ last.op = "call" /\ last.reloadRet = "false"
    /\ errs > 0
    /\ exc_info.exc \in {"err", "syntax", "patch"}
    /\ ns["b"]["g"] = 2
    /\ old_objects[<<"b", "g">>] = <<>>
    /\ old_objects[<<"a", "f">>] # <<>>

\* a watch-based reload() of a and b ended with the fault of a
C20_WitnessWatch ==
    /\ facade = "watch"
    /\ last.op = "call" /\ last.changed = <<"a", "b">>
    /\ last.reloadRet \in ReloadFaults /\ last.executed = 0

\* a poll-based reload() of a and b ended with the fault of a
C20_WitnessPoll ==
    /\ facade = "poll"
    /\ last.op = "pollreload" /\ last.changed = <<"a", "b">>
    /\ last.reloadRet \in ReloadFaults /\ last.executed = 0

\* a poll-based reload() after such a fault returned false, b's newer file
\* still not re-executed
C20_WitnessPollAfter ==
    /\ facade = "poll"
    /\ last.op = "pollreload" /\ last.reloadRet = "false" /\ last.drained
    /\ old_objects[<<"a", "f">>] # <<>>
    /\ old_objects[<<"b", "g">>] = <<>>
    /\ fs["b.py"] > 0 /\ mtime_table["b"] = fs["b.py"]


----------------------------------------------------------------------------
(* Detected changes across worker death (specification SpecPollFair).        *)

\* the scan process has ended after it found the file of unit m strictly newer
\* than the entry of m in the table it was sent, its result never put
DetectionLost(m) ==
    /\ worker.pc \in {"dead", "crashed"}
    /\ m \in NamesOf(worker.needs_reload)
    /\ mtime_table[m] # NoEntry
    /\ mtime_table[m] < worker.table[m]

\* a reload() has drained a scan result that lists unit m as dirty
ReportedDirty(m) ==
    /\ last.op = "pollreload" /\ last.drained
    /\ m \in NamesOf(last.changed)

\* the step is one turn of the worker's loop for unit m, whose file is there
\* and strictly newer than the facade's table says
ScansNewer(m) ==
    /\ worker.pc = "scan"
    /\ worker.req # <<>>
    /\ Head(worker.req).name = m
    /\ worker'.req = Tail(worker.req)
    /\ mtime_table[m] # NoEntry
    /\ fs[Origin(m)] # Missing
    /\ mtime_table[m] < fs[Origin(m)]

\* C21: the facade's table changes only in a reload() that drains a scan
\* result, and then to the table of that result; what a worker detects does not
\* touch it. So every scan turn for a unit whose file is newer than the
\* facade's table says marks the unit dirty, whichever worker runs it, and after
\* a worker ended with an undelivered detection for unit a, a later reload()
\* drains a result that lists a dirty (unless its file is removed).
C21_NoDetectedChangeLost ==
    /\ [][mtime_table' # mtime_table =>
             /\ last'.op = "pollreload" /\ last'.drained
             /\ scan_results # <<>>
             /\ mtime_table' = Head(scan_results).table]_vars
    /\ [][\A m \in {"a", "b"} :
             ScansNewer(m) => m \in NamesOf(worker'.needs_reload)]_vars
    /\ DetectionLost("a") ~> (ReportedDirty("a") \/ fs["a.py"] = Missing)

\* a worker that had found a.py newer died before it put its result; the worker
\* that replaced it found a.py newer again and a reload() drained its result
C21_Witness ==
    /\ ReportedDirty("a")
    /\ interrupts = 1
    /\ worker.pc \in {"get", "scan"}
    /\ mtime_table["a"] = fs["a.py"] /\ fs["a.py"] > 0

\* the worker is dead with an undelivered detection for unit a
C21_WitnessLost == DetectionLost("a")


----------------------------------------------------------------------------
(* Termination of the patcher (specification SpecGeneric).                   *)

\* C22: every application of update_generic reaches its end and returns,
\* whatever the two entities are, types that hold themselves or each other as
\* attributes included; the nesting of update_class and update_generic never
\* outgrows what the interpreter allows.
C22_ReconcileTerminates ==
    last.op = "update_generic" => last.fault = "none"


====
